---- MODULE Spec2Model ----
(***************************************************************************)
(* The import pipeline of powietrze: import_multiple_zips / import_zip_file *)
(* (src/src/powietrze/importer.py), the tables and find-or-create helpers  *)
(* of src/src/powietrze/db.py, the archive walker of parser.py and the     *)
(* reset-failed command of cli.py, as a state machine over one PostgreSQL  *)
(* store shared by up to two importing processes. Spec runs the operations *)
(* one after another, SpecConc interleaves two processes step by step, and *)
(* SpecSheet imports one archive over every small worksheet.               *)
(***************************************************************************)
EXTENDS Integers, Sequences, FiniteSets, TLC

\* ------------------------------------------------------------------ bounds
\* batch_size of import_zip_file (50000 by default), scaled to the model's files
BatchSize == 2
\* how many exceptions and process crashes one behaviour may contain
MaxFailures == 1
\* how many import_multiple_zips calls two interleaved processes make in all
MaxCalls == 2
\* the station columns and the data rows of the sheets drawn for an archive
MaxStations == 2
MaxRows == 3

Procs == {1, 2}

\* ------------------------------------------------------------- ImportStatus
PENDING == "pending"
IN_PROGRESS == "in_progress"
COMPLETED == "completed"
FAILED == "failed"

\* Python None / SQL NULL for a number, a text and a timestamp column
NULL == -1
NoText == "NULL"
NoTime == "NULL"
\* datetime.now() of the completion, func.now() of the creation
Now == "now"

\* --------------------------------------------------------------- the inputs
MeasurementRecord(code, name, unit, avg, at, value) ==
    [station_code |-> code, indicator_name |-> name, unit |-> unit,
     averaging_time |-> avg, measured_at |-> at, value |-> value]

\* A worksheet after pd.read_excel: the header rows (station codes and units
\* by data column, the indicator and the averaging time of the first data
\* column) and the data rows, each its timestamp cell and its data cells.
\* Values are in thousandths (12504 is 12.504); stored values in hundredths.
Sheet(indicator_name, averaging_time, station_codes, units, rows) ==
    [indicator_name |-> indicator_name, averaging_time |-> averaging_time,
     station_codes |-> station_codes, units |-> units, rows |-> rows]

Row(timestamp, cells) == [timestamp |-> timestamp, cells |-> cells]

\* A timestamp cell that is empty or does not convert
NaT == 0

SheetPM10 ==
    Sheet("PM10", "24g", <<"S1", "S1", "S2", "S1">>,
          <<"ug/m3", "ug/m3", "ug/m3", "ug/m3">>,
          << Row(1, <<12504, 7000, 2000, 3000>>) >>)

SheetNO2 ==
    Sheet("NO2", "1g", <<"S1", "S1", "S2">>, <<"ug/m3", "ug/m3", "ug/m3">>,
          << Row(NaT, <<9000, 9000, 9000>>), Row(1, <<5000, 6004, NULL>>) >>)

SheetOther ==
    Sheet("PM10", "24g", <<"S2", "S1", "S1">>, <<"ug/m3", "ug/m3", "mg/m3">>,
          << Row(1, <<NULL, 8000, 4000>>) >>)

\* No worksheet: the archive a3.zip is not there
NoSheet == Sheet("", "", <<>>, <<>>, <<>>)

\* The rows a drawn sheet may have at position i: without a timestamp, or
\* with one and each data cell empty or a number
DrawnRows(S, i) ==
    {Row(NaT, [c \in 1..S |-> NULL])}
        \cup {Row(i, cells) : cells \in [1..S -> {NULL, 2504}]}

\* A header cell that is empty in the worksheet
EmptyCell == "NULL"

\* The station codes and the units drawn for a sheet of S data columns: every
\* cell there, or the code or the unit of the first data column empty
DrawnHeaders(S) ==
    LET codes == SubSeq(<<"S1", "S2", "S3">>, 1, S)
        units == [c \in 1..S |-> "ug/m3"]
    IN { <<codes, units>>,
         <<[codes EXCEPT ![1] = EmptyCell], units>>,
         <<codes, [units EXCEPT ![1] = EmptyCell]>> }

\* The worksheets drawn for the one file of a3.zip
Sheets ==
    UNION {
        {Sheet("SO2", "1g", d[1][1], d[1][2], d[2]) :
            d \in DrawnHeaders(S) \X
                  {r \in [1..MaxRows -> UNION {DrawnRows(S, i) : i \in 1..MaxRows}] :
                          \A i \in 1..MaxRows : r[i] \in DrawnRows(S, i)}}
        : S \in 1..MaxStations}

VARIABLES
    sheet,     \* the worksheet of the file of a3.zip, NoSheet without the archive
    grid,      \* the grid handed to the parser on its own
    parsed     \* what the parser made of it

\* A member of a zip archive: its name, cut at the places the walker looks at,
\* and its worksheet.
Member(filename, content) == [filename |-> filename, content |-> content]

ArchiveNames == {"a1.zip", "a2.zip", "a3.zip"}

\* ZipFile.namelist() with each member's content
Namelist(zip_path) ==
    IF zip_path = "a1.zip"
    THEN << Member(<<"notes", ".txt">>, NoSheet),
            Member(<<"2024_PM10_24g", ".xlsx">>, SheetPM10),
            Member(<<"2024_", "Depozycja", "_1m", ".xlsx">>, SheetOther),
            Member(<<"2024_NO2_1g", ".xlsx">>, SheetNO2) >>
    ELSE IF zip_path = "a2.zip"
    THEN << Member(<<"2024_PM10_24g", ".xlsx">>, SheetOther) >>
    ELSE << Member(<<"2024_SO2_1g", ".xlsx">>, sheet) >>

\* The zip_paths lists a caller hands to import_multiple_zips
ZipPathLists == { <<"a1.zip">>, <<"a2.zip">>, <<"a2.zip", "a1.zip">>, <<"a3.zip">> }

\* str(e) of the exceptions parsing and loading raise; MemoryError() and a
\* bare assert give the empty text.
ExceptionTexts == {"", "numeric field overflow"}

\* str(e) of the IntegrityError of an INSERT that meets a committed row with
\* its unique key
UniqueViolation == "duplicate key value violates unique constraint"

\* ------------------------------------------------------------ archive walker
SKIP_PATTERNS == {"Depozycja"}

\* A walker without the exclusion list
NeverSkipFile(filename) == FALSE

should_skip_file(filename) ==
    \E pattern \in SKIP_PATTERNS : \E k \in DOMAIN filename : filename[k] = pattern

EndsWithXlsx(filename) ==
    Len(filename) > 0 /\ filename[Len(filename)] = ".xlsx"

QualifyingMember(m) == EndsWithXlsx(m.filename) /\ ~should_skip_file(m.filename)

iter_xlsx_from_zip(zip_path) == SelectSeq(Namelist(zip_path), QualifyingMember)

\* ------------------------------------------------------------ record parser
Min(a, b) == IF a < b THEN a ELSE b

\* The cells of the grid pd.read_excel(header=None) gives: an empty cell, a
\* number (in thousandths), a text (cut at the characters the parser looks
\* at) and a date cell (the hour v - 1 of 2024-01-01)
NaN == [t |-> "nan", v |-> 0, s |-> <<>>]

Number(v) == [t |-> "float", v |-> v, s |-> <<>>]

Text(s) == [t |-> "str", v |-> 0, s |-> s]

Timestamp(v) == [t |-> "Timestamp", v |-> v, s |-> <<>>]

isna(cell) == cell.t = "nan"

RECURSIVE Join(_)
Join(tokens) == IF tokens = <<>> THEN "" ELSE Head(tokens) \o Join(Tail(tokens))

DecimalDigits == <<"0", "1", "2", "3", "4", "5", "6", "7", "8", "9">>

RECURSIVE IntText(_)
IntText(n) ==
    IF n < 10 THEN DecimalDigits[n + 1]
    ELSE IntText(n \div 10) \o DecimalDigits[(n % 10) + 1]

\* repr of a float given in thousandths: 12500 is "12.5", 7000 is "7.0"
FloatText(v) ==
    LET f == v % 1000 IN
    IntText(v \div 1000) \o "." \o
        (IF f % 100 = 0 THEN IntText(f \div 100)
         ELSE IF f % 10 = 0
              THEN IntText(f \div 100) \o IntText((f \div 10) % 10)
              ELSE IntText(f \div 100) \o IntText((f \div 10) % 10) \o IntText(f % 10))

\* The time of day of the hour v - 1
TimeText(v) == IntText((v - 1) \div 10) \o IntText((v - 1) % 10) \o ":00:00"

\* str(cell)
str(cell) ==
    IF cell.t = "nan" THEN "nan"
    ELSE IF cell.t = "str" THEN Join(cell.s)
    ELSE IF cell.t = "float" THEN FloatText(cell.v)
    ELSE "2024-01-01 " \o TimeText(cell.v)

\* str(cell), cut where the parser looks
Tokens(cell) == IF cell.t = "str" THEN cell.s ELSE <<str(cell)>>

\* s.replace(old, new), old being one of the characters the text is cut at
Replace(tokens, old, new) ==
    [k \in DOMAIN tokens |-> IF tokens[k] = old THEN new ELSE tokens[k]]

\* s.split(".")[0]
RECURSIVE BeforeDot(_)
BeforeDot(tokens) ==
    IF tokens = <<>> \/ Head(tokens) = "." THEN <<>>
    ELSE <<Head(tokens)>> \o BeforeDot(Tail(tokens))

\* The runs of decimal digits the texts are cut into, by their values
DigitRuns == {1, 3, 5, 12, 234, 504}

IsDigits(text) == \E n \in DigitRuns : IntText(n) = text

DigitsValue(text) == CHOOSE n \in DigitRuns : IntText(n) = text

DigitsCount(text) == IF DigitsValue(text) < 10 THEN 1
                     ELSE IF DigitsValue(text) < 100 THEN 2 ELSE 3

\* float(text) in thousandths, NULL standing for the ValueError: digits, or
\* digits, a period and up to three digits
float(tokens) ==
    IF Len(tokens) = 1 /\ IsDigits(tokens[1])
    THEN 1000 * DigitsValue(tokens[1])
    ELSE IF /\ Len(tokens) = 3
            /\ IsDigits(tokens[1]) /\ tokens[2] = "." /\ IsDigits(tokens[3])
    THEN 1000 * DigitsValue(tokens[1])
            + (IF DigitsCount(tokens[3]) = 1 THEN 100 * DigitsValue(tokens[3])
               ELSE IF DigitsCount(tokens[3]) = 2 THEN 10 * DigitsValue(tokens[3])
               ELSE DigitsValue(tokens[3]))
    ELSE NULL

\* The hours of a day, counted from 1
Hours == 1..24

\* datetime.fromisoformat(text), NaT standing for the ValueError: a date, one
\* separating character, a time and at most a fraction of six digits
fromisoformat(tokens) ==
    IF /\ Len(tokens) \in {3, 5}
       /\ tokens[1] = "2024-01-01"
       /\ tokens[2] \in {" ", "T"}
       /\ \E h \in Hours : TimeText(h) = tokens[3]
       /\ Len(tokens) = 5 => (tokens[4] = "." /\ tokens[5] = "000000")
    THEN CHOOSE h \in Hours : TimeText(h) = tokens[3]
    ELSE NaT

\* pd.to_datetime(number): nanoseconds after 1970-01-01
Epoch == -1

\* A grid, row by row; df.iloc[r, c] counts both from 0
NRows(df) == Len(df)

NCols(df) == IF df = <<>> THEN 0 ELSE Len(df[1])

iloc(df, r, c) == df[r + 1][c + 1]

\* detect_format of a grid that has the cell (5, 0)
detect_format(df) ==
    LET row5_col0 == IF ~isna(iloc(df, 5, 0)) THEN Tokens(iloc(df, 5, 0)) ELSE <<>> IN
    IF \E k \in DOMAIN row5_col0 : row5_col0[k] = "Data" THEN 2 ELSE 1

\* The loop of detect_data_start_row from idx on
RECURSIVE DetectFrom(_, _)
DetectFrom(df, idx) ==
    IF idx >= Min(15, NRows(df)) THEN 6
    ELSE LET val == iloc(df, idx, 0) IN
         IF isna(val) THEN DetectFrom(df, idx + 1)
         ELSE IF val.t = "Timestamp" THEN idx
         ELSE IF val.t = "str" /\ fromisoformat(BeforeDot(Replace(val.s, " ", "T"))) # NaT
              THEN idx
              ELSE DetectFrom(df, idx + 1)

\* A scan that goes on to the last row of the grid
RECURSIVE DetectToLastRow(_, _)
DetectToLastRow(df, idx) ==
    IF idx >= NRows(df) THEN 6
    ELSE LET val == iloc(df, idx, 0) IN
         IF isna(val) THEN DetectToLastRow(df, idx + 1)
         ELSE IF val.t = "Timestamp" THEN idx
         ELSE IF val.t = "str" /\ fromisoformat(BeforeDot(Replace(val.s, " ", "T"))) # NaT
              THEN idx
              ELSE DetectToLastRow(df, idx + 1)

DetectBeyondRow14(df) == DetectToLastRow(df, 5)

detect_data_start_row(df) == DetectFrom(df, 5)

\* The cells of row r from column c on, each as str gives it
StrFrom(df, r, c) == [k \in 1..(NCols(df) - c) |-> str(iloc(df, r, c + k - 1))]

\* df.iloc[5, 0] of detect_format raises IndexError: the grid has no such cell
DetectFormatRaises(df) == NRows(df) < 6 \/ NCols(df) < 1

\* The indexing of parse_xlsx_metadata at data_start_col raises IndexError
MetadataRaises(df) == NCols(df) <= detect_format(df)

\* parse_xlsx_metadata of a grid it does not raise on
parse_xlsx_metadata(df) ==
    LET data_start_col == detect_format(df) IN
    [indicator_name |-> str(iloc(df, 2, data_start_col)),
     averaging_time |-> str(iloc(df, 3, data_start_col)),
     station_codes |-> StrFrom(df, 1, data_start_col),
     units |-> StrFrom(df, 4, data_start_col),
     data_start_col |-> data_start_col,
     data_start_row |-> detect_data_start_row(df)]

\* measured_at of a row by its cell of column 0, NaT when the row is passed over
MeasuredAt(timestamp) ==
    IF isna(timestamp) THEN NaT
    ELSE IF timestamp.t = "str" THEN fromisoformat(timestamp.s)
    ELSE IF timestamp.t = "Timestamp" THEN timestamp.v
    ELSE Epoch

\* A conversion that leaves the comma in the text
ValueFloatKeepingComma(value) ==
    IF isna(value) THEN NULL
    ELSE IF value.t = "str" THEN float(value.s)
    ELSE IF value.t = "float" THEN value.v
    ELSE NULL

\* value_float of a data cell, NULL standing for None: the float of a text
\* with its commas turned into periods, of a number itself; a date cell gives
\* the TypeError
ValueFloat(value) ==
    IF isna(value) THEN NULL
    ELSE IF value.t = "str" THEN float(Replace(value.s, ",", "."))
    ELSE IF value.t = "float" THEN value.v
    ELSE NULL

\* A row that yields records for its cells with a value only
FrameRowRecordsWithValue(df, metadata, r) ==
    LET HasValue(record) == record.value # NULL IN
    SelectSeq([col_idx \in DOMAIN metadata.station_codes |->
                  MeasurementRecord(metadata.station_codes[col_idx], metadata.indicator_name,
                                    metadata.units[col_idx], metadata.averaging_time,
                                    MeasuredAt(iloc(df, r, 0)),
                                    ValueFloat(iloc(df, r, metadata.data_start_col + col_idx - 1)))],
              HasValue)

\* The records of the row r of the grid: one per station column
FrameRowRecords(df, metadata, r) ==
    [col_idx \in DOMAIN metadata.station_codes |->
        MeasurementRecord(metadata.station_codes[col_idx], metadata.indicator_name,
                          metadata.units[col_idx], metadata.averaging_time,
                          MeasuredAt(iloc(df, r, 0)),
                          ValueFloat(iloc(df, r, metadata.data_start_col + col_idx - 1)))]

\* The loop over the rows of data_df from row r on
RECURSIVE FrameRows(_, _, _)
FrameRows(df, metadata, r) ==
    IF r >= NRows(df) THEN <<>>
    ELSE (IF MeasuredAt(iloc(df, r, 0)) = NaT THEN <<>>
          ELSE FrameRowRecords(df, metadata, r))
             \o FrameRows(df, metadata, r + 1)

\* The loop over data_df, the rows of the grid from data_start_row on
DataFrameRows(df, metadata) == FrameRows(df, metadata, metadata.data_start_row)

IndexError == "single positional indexer is out-of-bounds"

\* parse_xlsx_file from the grid on: the exception it raises, if any, the
\* column detect_format returned, if it did, and the records it yields
ParseFrame(df) ==
    IF DetectFormatRaises(df)
    THEN [error |-> IndexError, data_start_col |-> NULL, data_start_row |-> NULL,
          records |-> <<>>]
    ELSE IF MetadataRaises(df)
    THEN [error |-> IndexError, data_start_col |-> detect_format(df),
          data_start_row |-> NULL, records |-> <<>>]
    ELSE [error |-> NoText, data_start_col |-> detect_format(df),
          data_start_row |-> parse_xlsx_metadata(df).data_start_row,
          records |-> DataFrameRows(df, parse_xlsx_metadata(df))]

\* pd.read_excel of the workbook of a worksheet: the header rows 0 to 5, the
\* timestamps in column 0 and the stations from column 1 on
HeaderRow(label, texts) ==
    <<Text(<<label>>)>>
        \o [c \in DOMAIN texts |-> IF texts[c] = EmptyCell THEN NaN ELSE Text(<<texts[c]>>)]

DataRow(row) ==
    <<IF row.timestamp = NaT THEN NaN ELSE Timestamp(row.timestamp)>>
        \o [c \in DOMAIN row.cells |->
               IF row.cells[c] = NULL THEN NaN ELSE Number(row.cells[c])]

read_excel(content) ==
    << HeaderRow("Nr", [c \in DOMAIN content.station_codes |-> "n"]),
       HeaderRow("Kod stacji", content.station_codes),
       HeaderRow("Wskaznik", [c \in DOMAIN content.station_codes |-> content.indicator_name]),
       HeaderRow("Czas usredniania",
                 [c \in DOMAIN content.station_codes |-> content.averaging_time]),
       HeaderRow("Jednostka", content.units),
       HeaderRow("Kod stanowiska", content.station_codes) >>
        \o [k \in DOMAIN content.rows |-> DataRow(content.rows[k])]

\* A loop that takes the rows of the worksheet as they are: the records of
\* one row, one per station column
RowRecords(content, row) ==
    [c \in DOMAIN content.station_codes |->
        MeasurementRecord(content.station_codes[c], content.indicator_name,
                          content.units[c], content.averaging_time,
                          row.timestamp, row.cells[c])]

\* The loop without the test of the timestamp
RECURSIVE ParseEveryRow(_)
ParseEveryRow(member) ==
    IF member.content.rows = <<>>
    THEN <<>>
    ELSE RowRecords(member.content, Head(member.content.rows))
             \o ParseEveryRow([member EXCEPT !.content.rows = Tail(@)])

\* list(parse_xlsx_file(content, filename)) of a readable member
parse_xlsx_file(member) == ParseFrame(read_excel(member.content)).records

\* ---------------------------------------------------------- the grids drawn
\* The header texts of the columns 1, 2, ... of a drawn grid
StationCodes == <<"S1", "S2", "S3", "S4", "S5", "S6">>

IndicatorNames == <<"SO2", "NO2", "O3", "CO", "PM10", "PM25">>

AveragingLabels == <<"1g", "24g", "1g", "24g", "1g", "24g">>

UnitNames == <<"ug/m3", "mg/m3", "ug/m3", "mg/m3", "ug/m3", "mg/m3">>

\* The header rows 0 to 4 of a grid of ncols columns
DrawnHeader(ncols) ==
    << HeaderRow("Nr", SubSeq(StationCodes, 1, ncols - 1)),
       HeaderRow("Kod stacji", SubSeq(StationCodes, 1, ncols - 1)),
       HeaderRow("Wskaznik", SubSeq(IndicatorNames, 1, ncols - 1)),
       HeaderRow("Czas usredniania", SubSeq(AveragingLabels, 1, ncols - 1)),
       HeaderRow("Jednostka", SubSeq(UnitNames, 1, ncols - 1)) >>

\* The cells drawn for column 0 of the row of hour i: empty, a date, the
\* date as text, with and without a fraction, another text, a number
TimestampCells(i) ==
    { NaN, Timestamp(i),
      Text(<<"2024-01-01", " ", TimeText(i)>>),
      Text(<<"2024-01-01", "T", TimeText(i), ".", "000000">>),
      Text(<<"brak">>), Number(2504) }

\* ... and for the cell (5, 0), which may be a header: the marker of the
\* date-range layout, or the label of the other layout
MarkerCell == Text(<<"Data", " od">>)

Row5Cells == TimestampCells(1) \cup {MarkerCell, Text(<<"Kod stanowiska">>)}

\* The cells of the data columns, taken in turn from column to column: a
\* number, texts with a decimal comma, with a decimal period, of digits, an
\* empty cell, a word, a text with two commas, a date
DataCells ==
    << Number(2504), Text(<<"12", ",", "5">>), NaN, Text(<<"brak">>),
       Text(<<"1", ",", "234", ",", "5">>), Timestamp(1),
       Text(<<"3", ".", "504">>), Text(<<"12">>) >>

DrawnRow(cell0, shift, ncols) ==
    <<cell0>> \o [c \in 1..(ncols - 1) |-> DataCells[((c + shift) % Len(DataCells)) + 1]]

\* The cells of column 0 of the k rows below row 5, row by row
TimestampColumns(k) ==
    {f \in [1..k -> UNION {TimestampCells(i + 1) : i \in 1..k}] :
        \A i \in 1..k : f[i] \in TimestampCells(i + 1)}

\* The turns of the data cells of row 5: one where there are no data cells
Turns(ncols) == IF ncols = 1 THEN {0} ELSE 0..(Len(DataCells) - 1)

\* The grids of nrows rows and ncols columns: the header alone, or the
\* header, a row 5 and the rows below it
GridsOf(nrows, ncols) ==
    IF nrows = 5 THEN {DrawnHeader(ncols)}
    ELSE {DrawnHeader(ncols) \o <<DrawnRow(d[1], d[2], ncols)>>
              \o [i \in 1..(nrows - 6) |-> DrawnRow(d[3][i], 2 * i + 5, ncols)] :
            d \in Row5Cells \X Turns(ncols) \X TimestampColumns(nrows - 6)}

\* The grids drawn are the empty one and those of 5 and more rows of 1 and
\* more columns
GridHeights == 5..(5 + MaxRows)

GridWidths == 1..(MaxStations + 2)

\* ... and grids of 16 rows, beyond the rows the detection of the start row
\* looks at: a header in row 5, one row with a date, which is row 14 or row
\* 15, and rows without a date in between
TallGridsOf(ncols) ==
    {DrawnHeader(ncols) \o <<DrawnRow(d[1], 0, ncols)>>
        \o [i \in 1..10 |-> DrawnRow(IF i + 5 = d[3] THEN Timestamp(i + 1) ELSE d[2],
                                      2 * i + 5, ncols)] :
      d \in {MarkerCell, Text(<<"Kod stanowiska">>)} \X {NaN, Text(<<"brak">>)} \X {14, 15}}

\* ------------------------------------------------------------------- tables
EmptyDb ==
    [stations |-> {}, indicators |-> {}, import_files |-> {},
     measurements |-> <<>>,
     seq |-> [stations |-> 0, indicators |-> 0, import_files |-> 0]]

\* session.query(Station).filter(Station.code == code)
StationsByCode(d, code) == {s \in d.stations : s.code = code}

\* A resolver that adds a Station without looking for one
AlwaysCreateStation(d, code) ==
    LET id == d.seq.stations + 1 IN
    [db |-> [d EXCEPT !.stations = @ \cup {[id |-> id, code |-> code]},
                      !.seq.stations = id],
     id |-> id]

get_or_create_station(d, code) ==
    IF StationsByCode(d, code) # {}
    THEN [db |-> d, id |-> (CHOOSE s \in StationsByCode(d, code) : TRUE).id]
    ELSE LET id == d.seq.stations + 1 IN
         [db |-> [d EXCEPT !.stations = @ \cup {[id |-> id, code |-> code]},
                           !.seq.stations = id],
          id |-> id]

IndicatorsByKey(d, name, unit) ==
    {x \in d.indicators : x.name = name /\ x.unit = unit}

get_or_create_indicator(d, name, unit) ==
    IF IndicatorsByKey(d, name, unit) # {}
    THEN [db |-> d, id |-> (CHOOSE x \in IndicatorsByKey(d, name, unit) : TRUE).id]
    ELSE LET id == d.seq.indicators + 1 IN
         [db |-> [d EXCEPT !.indicators = @ \cup {[id |-> id, name |-> name, unit |-> unit]},
                           !.seq.indicators = id],
          id |-> id]

ImportFilesByKey(d, archive_name, filename) ==
    {f \in d.import_files : f.archive_name = archive_name /\ f.filename = filename}

get_or_create_import_file(d, archive_name, filename) ==
    IF ImportFilesByKey(d, archive_name, filename) # {}
    THEN [db |-> d,
          id |-> (CHOOSE f \in ImportFilesByKey(d, archive_name, filename) : TRUE).id]
    ELSE LET id == d.seq.import_files + 1 IN
         [db |-> [d EXCEPT !.import_files = @ \cup
                     {[id |-> id, archive_name |-> archive_name, filename |-> filename,
                       status |-> PENDING, records_imported |-> 0,
                       records_skipped |-> 0, error_message |-> NoText,
                       created_at |-> Now, completed_at |-> NoTime]},
                           !.seq.import_files = id],
          id |-> id]

\* A check that takes a file another attempt has begun for done
BegunOrCompleted(d, archive_name, filename) ==
    \E f \in ImportFilesByKey(d, archive_name, filename) :
        f.status \in {IN_PROGRESS, COMPLETED}

\* A check that never finds the file
NeverCompleted(d, archive_name, filename) == FALSE

is_file_completed(d, archive_name, filename) ==
    \E f \in ImportFilesByKey(d, archive_name, filename) : f.status = COMPLETED

\* UPDATE import_files SET ... WHERE id = :id, the flush of a changed ORM object
ImportFileById(d, id) == CHOOSE f \in d.import_files : f.id = id

UpdateImportFile(d, row) ==
    [d EXCEPT !.import_files = {IF f.id = row.id THEN row ELSE f : f \in @}]

\* ------------------------------------------------------------- bulk loader
\* f"{record.value:.2f}": thousandths to the nearest hundredth
Format2(value) == (value + 5) \div 10

NewPrepareState(d) ==
    [db |-> d, station_cache |-> <<>>, indicator_cache |-> <<>>,
     csv |-> <<>>, imported |-> 0, skipped |-> 0]

ResolveStation(st, record) ==
    IF record.station_code \in DOMAIN st.station_cache
    THEN st
    ELSE LET g == get_or_create_station(st.db, record.station_code) IN
         [st EXCEPT !.db = g.db,
                    !.station_cache = (record.station_code :> g.id) @@ @]

ResolveIndicator(st, record) ==
    LET indicator_key == <<record.indicator_name, record.unit>> IN
    IF indicator_key \in DOMAIN st.indicator_cache
    THEN st
    ELSE LET g == get_or_create_indicator(st.db, record.indicator_name, record.unit) IN
         [st EXCEPT !.db = g.db,
                    !.indicator_cache = (indicator_key :> g.id) @@ @]

CsvRow(st, record, import_file_id) ==
    [station_id |-> st.station_cache[record.station_code],
     indicator_id |-> st.indicator_cache[<<record.indicator_name, record.unit>>],
     import_file_id |-> import_file_id,
     averaging_time |-> record.averaging_time,
     measured_at |-> record.measured_at,
     value |-> Format2(record.value)]

\* The loop's pass without the test for a missing value
PrepareRecordNoSkip(st, record, import_file_id) ==
    LET t == ResolveIndicator(ResolveStation(st, record), record) IN
    [t EXCEPT !.csv = Append(@, CsvRow(t, record, import_file_id)),
              !.imported = @ + 1]

\* One pass of the loop of prepare_measurements_data over a record
PrepareRecord(st, record, import_file_id) ==
    IF record.value = NULL
    THEN [st EXCEPT !.skipped = @ + 1]
    ELSE LET t == ResolveIndicator(ResolveStation(st, record), record) IN
         [t EXCEPT !.csv = Append(@, CsvRow(t, record, import_file_id)),
                   !.imported = @ + 1]

RECURSIVE PrepareLoop(_, _, _)
PrepareLoop(st, records, import_file_id) ==
    IF records = <<>>
    THEN st
    ELSE PrepareLoop(PrepareRecord(st, Head(records), import_file_id),
                     Tail(records), import_file_id)

\* The state of the session when prepare_measurements_data reaches its commit
prepare_measurements_data(d, records, import_file_id) ==
    PrepareLoop(NewPrepareState(d), records, import_file_id)

\* uq_measurement
StagedKey(row) ==
    <<row.station_id, row.indicator_id, row.averaging_time, row.measured_at>>

StagedKeys(csv) == {StagedKey(csv[k]) : k \in DOMAIN csv}

\* The rows DISTINCT ON may keep for a key: ORDER BY ..., import_file_id DESC
\* puts the highest import_file_id first and leaves rows that tie in it in an
\* order PostgreSQL does not fix.
DistinctOnCandidates(csv, key) ==
    LET rows == {csv[k] : k \in {j \in DOMAIN csv : StagedKey(csv[j]) = key}} IN
    {r \in rows : \A o \in rows : o.import_file_id <= r.import_file_id}

DistinctOnChoices(csv) ==
    {pick \in [StagedKeys(csv) -> {csv[k] : k \in DOMAIN csv}] :
        \A key \in StagedKeys(csv) : pick[key] \in DistinctOnCandidates(csv, key)}

\* The collation order of the averaging_time texts
AveragingTimes == <<"1g", "24g">>

TextRank(t) == CHOOSE k \in DOMAIN AveragingTimes : AveragingTimes[k] = t

KeyBefore(a, b) ==
    \/ a[1] < b[1]
    \/ a[1] = b[1] /\ a[2] < b[2]
    \/ a[1] = b[1] /\ a[2] = b[2] /\ TextRank(a[3]) < TextRank(b[3])
    \/ a[1] = b[1] /\ a[2] = b[2] /\ a[3] = b[3] /\ a[4] <= b[4]

\* The SELECT's rows in the order of its ORDER BY
RECURSIVE OrderedRows(_, _)
OrderedRows(keys, pick) ==
    IF keys = {}
    THEN <<>>
    ELSE LET first == CHOOSE k \in keys : \A o \in keys : KeyBefore(k, o) IN
         <<pick[first]>> \o OrderedRows(keys \ {first}, pick)

Conflicts(measurements, row) ==
    {k \in DOMAIN measurements : StagedKey(measurements[k]) = StagedKey(row)}

\* The INSERT without its ON CONFLICT clause, on a table without the constraint
InsertBlind(measurements, row) == Append(measurements, row)

\* ON CONFLICT DO NOTHING in place of DO UPDATE
InsertDoNothing(measurements, row) ==
    IF Conflicts(measurements, row) # {} THEN measurements ELSE Append(measurements, row)

\* INSERT ... ON CONFLICT ON CONSTRAINT uq_measurement DO UPDATE of one row
\* An upsert that deletes the row of the key and inserts the new one
InsertAfterDelete(measurements, row) ==
    LET Other(m) == StagedKey(m) # StagedKey(row) IN
    Append(SelectSeq(measurements, Other), row)

InsertOnConflict(measurements, row) ==
    IF Conflicts(measurements, row) # {}
    THEN LET k == CHOOSE c \in Conflicts(measurements, row) : TRUE IN
         [measurements EXCEPT ![k].value = row.value,
                              ![k].import_file_id = row.import_file_id]
    ELSE Append(measurements, row)

RECURSIVE InsertRows(_, _)
InsertRows(measurements, rows) ==
    IF rows = <<>>
    THEN measurements
    ELSE InsertRows(InsertOnConflict(measurements, Head(rows)), Tail(rows))

\* measurements after COPY into the staging table and the INSERT ... SELECT,
\* pick being the row DISTINCT ON kept for each key
copy_measurements_to_db(measurements, csv, pick) ==
    InsertRows(measurements, OrderedRows(StagedKeys(csv), pick))

\* ------------------------------------------------- the GIOS API library
\* The older package, powietrze/base.py with sync.py and asynchronous.py:
\* the station list of the service, station objects made of it, and the
\* measurements a station object fetches.

\* One entry of the findAll answer. city is the name inside station['city'],
\* NoText where the service sends null for the city.
StationData(id, stationName, city) == [id |-> id, stationName |-> stationName, city |-> city]

\* The stations of the answer the tests replay, and one without a city
KnownStations ==
    { StationData(114, "Wroclaw - Bartnicza", "Wroclaw"),
      StationData(117, "Wroclaw - Korzeniowskiego", "Wroclaw"),
      StationData(158, "Bydgoszcz Warszawska", "Bydgoszcz"),
      StationData(530, "Warszawa-Komunikacyjna", "Warszawa"),
      StationData(901, "Stacja mobilna", NoText) }

MaxFetched == 3

RECURSIVE SeqsWithoutRepeats(_, _)
SeqsWithoutRepeats(S, n) ==
    IF n = 0
    THEN {<<>>}
    ELSE {<<>>} \cup UNION {{<<x>> \o t : t \in SeqsWithoutRepeats(S \ {x}, n - 1)} : x \in S}

\* What findAll may answer: up to MaxFetched stations in any order
FetchedLists == SeqsWithoutRepeats(KnownStations, MaxFetched)

\* The points create_stations_by_location is asked about: the one of the
\* tests, the place of station 158, and one between stations 114 and 117
Points == {"P1", "P2", "P3"}

\* _approximate_distance(point, (gegrLat, gegrLon)) in whole metres for the
\* coordinates of the answer; station 901 stands where station 114 does.
approximate_distance(point, station) ==
    LET id == IF station.id = 901 THEN 114 ELSE station.id
        metres == [pt \in Points |->
                     CASE pt = "P1" -> [i \in {114, 117, 158, 530} |->
                            CASE i = 114 -> 7952 [] i = 117 -> 0
                              [] i = 158 -> 232529 [] OTHER -> 299757]
                       [] pt = "P2" -> [i \in {114, 117, 158, 530} |->
                            CASE i = 114 -> 231928 [] i = 117 -> 232529
                              [] i = 158 -> 0 [] OTHER -> 226977]
                       [] OTHER -> [i \in {114, 117, 158, 530} |->
                            CASE i = 114 -> 4292 [] i = 117 -> 3693
                              [] i = 158 -> 232576 [] OTHER -> 297014]]
    IN metres[point][id]

\* The outcome of a call: what it returned, or the exception it raised
ApiReturned(value) == [error |-> NoText, value |-> value]
ApiRaised(error) == [error |-> error, value |-> <<>>]

\* StationSync(station_id=.., name=.., city=.., ..): BaseStation.__init__
\* takes these arguments
StationSync(station_id, name, city, distance) ==
    ApiReturned(<<[station_id |-> station_id, name |-> name, city |-> city,
                   distance |-> distance]>>)

\* StationAsync.__init__(self, api, station_id, ..) hands api and seven more
\* positional arguments to BaseStation.__init__, which takes seven: TypeError,
\* with or without the api argument (without it the call itself is one).
StationAsync(station_id, name, city, distance) == ApiRaised("TypeError")

ApiKinds == {"sync", "async"}

\* API._create_station_object of sync.py and of asynchronous.py over the one
\* of base.py: station['city']['name'] of a null city is a TypeError.
create_station_object(kind, station, distance) ==
    IF station.city = NoText
    THEN ApiRaised("TypeError")
    ELSE IF kind = "async"
         THEN StationAsync(station.id, station.stationName, station.city, distance)
         ELSE StationSync(station.id, station.stationName, station.city, distance)

\* rv.append(self._create_station_object(station)) for each of the chosen
\* in turn; the first exception ends the call
RECURSIVE CreateEach(_, _)
CreateEach(kind, chosen) ==
    IF chosen = <<>>
    THEN ApiReturned(<<>>)
    ELSE LET made == create_station_object(kind, Head(chosen).station, Head(chosen).distance)
             rest == CreateEach(kind, Tail(chosen))
         IN  IF made.error # NoText
             THEN made
             ELSE IF rest.error # NoText
                  THEN rest
                  ELSE ApiReturned(made.value \o rest.value)

RECURSIVE WithoutDistance(_)
WithoutDistance(stations) ==
    IF stations = <<>>
    THEN <<>>
    ELSE <<[station |-> Head(stations), distance |-> NULL]>> \o WithoutDistance(Tail(stations))

RECURSIVE StationsWithIdIn(_, _)
StationsWithIdIn(stations_data, station_ids) ==
    IF stations_data = <<>>
    THEN <<>>
    ELSE (IF Head(stations_data).id \in station_ids THEN <<Head(stations_data)>> ELSE <<>>)
         \o StationsWithIdIn(Tail(stations_data), station_ids)

create_stations_by_ids(kind, stations_data, station_ids) ==
    CreateEach(kind, WithoutDistance(StationsWithIdIn(stations_data, station_ids)))

RECURSIVE StationsWithNameIn(_, _)
StationsWithNameIn(stations_data, names) ==
    IF stations_data = <<>>
    THEN <<>>
    ELSE (IF Head(stations_data).stationName \in names THEN <<Head(stations_data)>> ELSE <<>>)
         \o StationsWithNameIn(Tail(stations_data), names)

create_stations_by_names(kind, stations_data, names) ==
    CreateEach(kind, WithoutDistance(StationsWithNameIn(stations_data, names)))

\* data = [(distance, s) for s in self._stations_data]
RECURSIVE WithDistance(_, _)
WithDistance(point, stations) ==
    IF stations = <<>>
    THEN <<>>
    ELSE <<[station |-> Head(stations), distance |-> approximate_distance(point, Head(stations))]>>
         \o WithDistance(point, Tail(stations))

\* x put before the first entry of a sorted list that is not nearer than x
RECURSIVE InsertByDistance(_, _)
InsertByDistance(x, sorted) ==
    IF sorted = <<>>
    THEN <<x>>
    ELSE IF x.distance <= Head(sorted).distance
         THEN <<x>> \o sorted
         ELSE <<Head(sorted)>> \o InsertByDistance(x, Tail(sorted))

\* data.sort(key=lambda x: x[0]): stable, entries of equal distance keep
\* their order
RECURSIVE SortByDistance(_)
SortByDistance(data) ==
    IF data = <<>>
    THEN <<>>
    ELSE InsertByDistance(Head(data), SortByDistance(Tail(data)))

\* data[:max_stations], max_stations not negative
FirstOf(data, max_stations) == SubSeq(data, 1, Min(max_stations, Len(data)))

RECURSIVE NotBeyond(_, _)
NotBeyond(data, max_distance) ==
    IF data = <<>>
    THEN <<>>
    ELSE (IF Head(data).distance <= max_distance THEN <<Head(data)>> ELSE <<>>)
         \o NotBeyond(Tail(data), max_distance)

create_stations_by_location(kind, stations_data, point, max_stations, max_distance) ==
    CreateEach(kind, NotBeyond(FirstOf(SortByDistance(WithDistance(point, stations_data)),
                                       max_stations),
                               max_distance))

\* The arguments the calls are made with
IdCollections == {{}, {117}, {114, 158}, {530, 901}, {5}}
NameCollections == {{}, {"Bydgoszcz Warszawska"},
                    {"Wroclaw - Bartnicza", "Wroclaw - Korzeniowskiego"},
                    {"Stacja mobilna", "Krakow"}}
MaxStationsAsked == 3
DistancesAsked == {0, 5000, 30000, 300000}

NoArgs == [station_ids |-> {}, names |-> {}, point |-> "", max_stations |-> 0, max_distance |-> 0]

\* The sensors of a station, by the id of the sensors answer, and the
\* paramCode each one's data come under
Sensors == {3575, 3584, 3585}
ParamCode(sensor_id) ==
    CASE sensor_id = 3575 -> "C6H6" [] sensor_id = 3584 -> "PM10" [] OTHER -> "PM2.5"

MaxSensors == 2
SensorLists == SeqsWithoutRepeats(Sensors, MaxSensors)

\* The values list of one getData answer
ValueLists == {"values_a", "values_b"}

\* measurements[data['key']] = data['values'], a dict being the set of its
\* (key, values) pairs
SetItem(measurements, key, values) ==
    {kv \in measurements : kv[1] # key} \cup {<<key, values>>}

NoFetch == [pc |-> "idle", idx |-> 0, measurements |-> {}, requests |-> <<>>, answered |-> 0]

\* No API object and no station object yet
NoAPI == [kind |-> "none", stations_data |-> <<>>, call |-> "none", args |-> NoArgs,
          rv |-> ApiReturned(<<>>),
          station |-> "none", sensors_data |-> <<>>, measurements |-> {},
          before |-> {}, fetch |-> NoFetch]

\* -------------------------------------------------------------------- state
VARIABLES
    gios,      \* the API object of the GIOS library, the call made of it last,
               \* and the station object of its tests
    db,        \* the durable store: what is committed
    run,       \* per process: where import_multiple_zips stands, and its locals
    updated,   \* the count reset-failed reports, when it was the last step
    failures,  \* exceptions and crashes so far
    calls,     \* import_multiple_zips calls of interleaved processes so far
    mode,      \* "seq": one operation at a time; "conc": two processes interleave
    op,        \* the step taken last, and its process
    last_ok,   \* the archive whose import_zip_file returned as the last
               \* operation to end, "" after a failure, a crash or a reset
    base,      \* the file begun last: the measurements when it was first
               \* begun, over the attempts at it that did not complete
    overlap,   \* two interleaved processes have been inside import_zip_file
               \* of the same archive at the same time
    resolved   \* what get_or_create_station and get_or_create_indicator have
               \* returned so far: the key, the id, and whether the batch's
               \* transaction was committed

vars == <<db, run, updated, failures, calls, mode, op, last_ok, base, overlap, resolved, sheet, grid, parsed, gios>>

NoResult == [kind |-> "none", text |-> NoText,
             total_imported |-> 0, total_skipped |-> 0, total_files_skipped |-> 0]

\* The file's row as MarkInProgress found it
NotFound == [id |-> 0, status |-> "absent", error_message |-> NoText]

\* committed: an earlier, interrupted attempt committed a batch; current: the
\* attempt under way did; done: the file was completed by the last step
NoBase == [import_file_id |-> 0, archive_name |-> "", idx |-> 0, measurements |-> {},
           committed |-> FALSE, current |-> FALSE, done |-> FALSE]

\* The transaction of prepare_measurements_data while it is open: the records
\* of the batch done, the locals, the rows flushed and not yet committed, and
\* the lookup that found nothing
NoTxn ==
    [n |-> 0, station_cache |-> <<>>, indicator_cache |-> <<>>, csv |-> <<>>,
     imported |-> 0, skipped |-> 0, stations |-> {}, indicators |-> {}, miss |-> "none"]

IdleRun ==
    [pc |-> "idle", zip_paths |-> <<>>, zi |-> 0,
     sum_imported |-> 0, sum_skipped |-> 0, sum_files_skipped |-> 0,
     archive_name |-> "", idx |-> 0, import_file |-> 0, i |-> 0,
     file_imported |-> 0, file_skipped |-> 0,
     total_imported |-> 0, total_skipped |-> 0, files_skipped |-> 0,
     csv_buffer |-> <<>>, imported |-> 0, skipped |-> 0,
     staging |-> <<>>, pick |-> <<>>, records |-> <<>>,
     e |-> NoText, result |-> NoResult,
     found |-> NotFound, prev |-> "", snap |-> EmptyDb,
     queried |-> {}, requeried |-> {}, txn |-> NoTxn, raised_in |-> "",
     callbacks |-> <<>>, before |-> EmptyDb]

InitMode(m) ==
    /\ db = EmptyDb
    /\ run = [p \in Procs |-> IdleRun]
    /\ updated = 0
    /\ failures = 0
    /\ calls = 0
    /\ mode = m
    /\ op = [name |-> "init", proc |-> 0]
    /\ last_ok = ""
    /\ base = NoBase
    /\ overlap = FALSE
    /\ resolved = {}

\* The parser on its own is not called
NoFrame == <<>>

NotParsed ==
    [error |-> "not called", data_start_col |-> NULL, data_start_row |-> NULL,
     records |-> <<>>]

Init == InitMode("seq") /\ sheet = NoSheet /\ grid = NoFrame /\ parsed = NotParsed /\ gios = NoAPI

InitConc == InitMode("conc") /\ sheet = NoSheet /\ grid = NoFrame /\ parsed = NotParsed /\ gios = NoAPI

\* One worksheet out of Sheets in a3.zip, the only archive
InitSheet == InitMode("seq") /\ sheet \in Sheets /\ grid = NoFrame /\ parsed = NotParsed /\ gios = NoAPI

\* One grid out of Grids, for the parser on its own
InitGrid ==
    /\ InitMode("seq") /\ sheet = NoSheet /\ parsed = NotParsed /\ gios = NoAPI
    /\ \/ grid = <<>>
       \/ \E nrows \in GridHeights : \E ncols \in GridWidths : grid \in GridsOf(nrows, ncols)
       \/ \E ncols \in GridWidths : grid \in TallGridsOf(ncols)

\* The record of a completed file is dropped by the step after its completion
BaseAfter == IF base.done THEN NoBase ELSE base

InsideZip(q) == run[q].pc \notin {"idle", "import_zip_file"}

\* Interleaved processes keep no record of the last step
Step(name, p) ==
    op' = IF mode = "seq" THEN [name |-> name, proc |-> p] ELSE [name |-> "-", proc |-> 0]

\* The files the run at p iterates over, and the one it stands at
Files(p) == iter_xlsx_from_zip(run[p].archive_name)

File(p) == Files(p)[run[p].idx]

\* records of import_zip_file (importer.py 239)
Records(p) == run[p].records

\* records[i : i + batch_size]
Batch(p) == SubSeq(Records(p), run[p].i + 1, Min(run[p].i + BatchSize, Len(Records(p))))

\* The measurements with station and indicator by their natural keys
MeasurementView(d) ==
    {[station_code |-> s.code, indicator_name |-> x.name, unit |-> x.unit,
      averaging_time |-> d.measurements[k].averaging_time,
      measured_at |-> d.measurements[k].measured_at,
      value |-> d.measurements[k].value,
      import_file_id |-> d.measurements[k].import_file_id] :
        <<k, s, x>> \in {t \in (DOMAIN d.measurements) \X d.stations \X d.indicators :
            /\ t[2].id = d.measurements[t[1]].station_id
            /\ t[3].id = d.measurements[t[1]].indicator_id}}

\* ---------------------------------------------------------------- the steps
\* import_multiple_zips is called (importer.py 309-311)
ImportMultipleZips(p, zip_paths) ==
    /\ run[p].pc = "idle"
    /\ mode = "seq" => (p = 1 /\ \A q \in Procs : run[q].pc = "idle")
    /\ mode = "conc" => calls < MaxCalls
    /\ mode = "conc" => Len(zip_paths) = 1
    /\ (zip_paths = <<"a3.zip">>) <=> (sheet # NoSheet)
    /\ calls' = IF mode = "conc" THEN calls + 1 ELSE calls
    /\ updated' = 0
    /\ run' = [run EXCEPT ![p] = [IdleRun EXCEPT !.pc = "import_zip_file",
                                                 !.zip_paths = zip_paths, !.zi = 1]]
    /\ Step("import_multiple_zips", p)
    /\ UNCHANGED <<db, failures, mode, last_ok, base, overlap, resolved, sheet, grid, parsed, gios>>

\* import_zip_file up to its loop (importer.py 211-218)
ImportZipFile(p) ==
    /\ run[p].pc = "import_zip_file"
    /\ run[p].zi <= Len(run[p].zip_paths)
    /\ run' = [run EXCEPT ![p].pc = "is_file_completed",
                          ![p].archive_name = run[p].zip_paths[run[p].zi],
                          ![p].idx = 1,
                          ![p].total_imported = 0, ![p].total_skipped = 0,
                          ![p].files_skipped = 0,
                          ![p].found = NotFound,
                          ![p].prev = last_ok,
                          ![p].queried = {}, ![p].requeried = {},
                          ![p].snap = IF mode = "seq" THEN db ELSE EmptyDb]
    /\ Step("import_zip_file", p)
    /\ updated' = 0
    /\ overlap' = (overlap \/ (mode = "conc" /\ \E q \in Procs \ {p} :
                    InsideZip(q) /\ run[q].archive_name = run[p].zip_paths[run[p].zi]))
    /\ UNCHANGED <<db, failures, calls, mode, last_ok, base, resolved, sheet, grid, parsed, gios>>

\* A file that is_file_completed finds COMPLETED is skipped (importer.py 223-227)
SkipFile(p) ==
    /\ run[p].pc = "is_file_completed"
    /\ run[p].idx <= Len(Files(p))
    /\ is_file_completed(db, run[p].archive_name, File(p).filename)
    /\ run' = [run EXCEPT ![p].files_skipped = @ + 1, ![p].idx = @ + 1,
                          ![p].callbacks = <<"on_file_skip">>]
    /\ Step("skip_file", p)
    /\ updated' = 0
    /\ base' = BaseAfter
    /\ UNCHANGED <<db, failures, calls, mode, last_ok, overlap, resolved, sheet, grid, parsed, gios>>

\* The check and the IN_PROGRESS write as one step
StartFileAndMark(p) ==
    /\ run[p].pc = "is_file_completed"
    /\ run[p].idx <= Len(Files(p))
    /\ ~is_file_completed(db, run[p].archive_name, File(p).filename)
    /\ LET g == get_or_create_import_file(db, run[p].archive_name, File(p).filename) IN
        /\ db' = UpdateImportFile(g.db, [ImportFileById(g.db, g.id)
                                             EXCEPT !.status = IN_PROGRESS])
        /\ run' = [run EXCEPT ![p].pc = "parse_xlsx_file", ![p].import_file = g.id,
                              ![p].callbacks = <<"on_file_start">>]
    /\ Step("start_file", p)
    /\ updated' = 0
    /\ base' = NoBase
    /\ UNCHANGED <<failures, calls, mode, last_ok, overlap, resolved, sheet, grid, parsed, gios>>

\* ... and any other file is begun (importer.py 223, 229-230)
StartFile(p) ==
    /\ run[p].pc = "is_file_completed"
    /\ run[p].idx <= Len(Files(p))
    /\ ~is_file_completed(db, run[p].archive_name, File(p).filename)
    /\ run' = [run EXCEPT ![p].pc = "get_or_create_import_file",
                          ![p].callbacks = <<"on_file_start">>]
    /\ Step("start_file", p)
    /\ updated' = 0
    /\ base' = BaseAfter
    /\ UNCHANGED <<db, failures, calls, mode, last_ok, overlap, resolved, sheet, grid, parsed, gios>>

\* on_file_skip or on_file_start raises, or one of on_archive_start and
\* on_archive_complete does: outside the try block of the file, the exception
\* leaves import_zip_file and import_multiple_zips with nothing written
\* (importer.py 224-230, 279-280, 314-330)
CallbackRaises(p, text) ==
    /\ \/ run[p].pc = "is_file_completed" /\ run[p].idx <= Len(Files(p))
       \/ run[p].pc = "import_zip_file"
    /\ failures < MaxFailures
    /\ failures' = failures + 1
    /\ run' = [run EXCEPT ![p] = [IdleRun EXCEPT !.result =
                  [kind |-> "raised", text |-> text,
                   total_imported |-> 0, total_skipped |-> 0, total_files_skipped |-> 0]]]
    /\ last_ok' = ""
    /\ Step("callback_raises", p)
    /\ updated' = 0
    /\ base' = BaseAfter
    /\ UNCHANGED <<db, calls, mode, overlap, resolved, sheet, grid, parsed, gios>>

Found(d, id) ==
    IF \E f \in d.import_files : f.id = id
    THEN LET f == CHOOSE f \in d.import_files : f.id = id IN
         [id |-> id, status |-> f.status, error_message |-> f.error_message]
    ELSE NotFound

SetInProgress(f) == [f EXCEPT !.status = IN_PROGRESS]

\* The file's row is found or created and committed IN_PROGRESS (importer.py 233-235)
MarkInProgress(p) ==
    /\ run[p].pc = "get_or_create_import_file"
    /\ LET g == get_or_create_import_file(db, run[p].archive_name, File(p).filename) IN
        /\ db' = UpdateImportFile(g.db, SetInProgress(ImportFileById(g.db, g.id)))
        /\ run' = [run EXCEPT ![p].pc = "parse_xlsx_file", ![p].import_file = g.id,
                              ![p].found = Found(db, g.id)]
        /\ base' = IF mode # "seq" THEN NoBase
                   ELSE IF base.import_file_id = g.id /\ ~base.done
                   THEN [base EXCEPT !.committed = base.committed \/ base.current,
                                     !.current = FALSE]
                   ELSE [NoBase EXCEPT !.import_file_id = g.id,
                                       !.archive_name = run[p].archive_name,
                                       !.idx = run[p].idx,
                                       !.measurements = MeasurementView(db)]
    /\ Step("mark_in_progress", p)
    /\ updated' = 0
    /\ UNCHANGED <<failures, calls, mode, last_ok, overlap, resolved, sheet, grid, parsed, gios>>

\* The file is parsed into its records (importer.py 239-242)
ParseFile(p) ==
    /\ run[p].pc = "parse_xlsx_file"
    /\ run' = [run EXCEPT ![p].pc = IF Len(parse_xlsx_file(File(p))) > 0
                                    THEN "prepare_measurements_data"
                                    ELSE "completed",
                          ![p].records = parse_xlsx_file(File(p)),
                          ![p].i = 0, ![p].file_imported = 0, ![p].file_skipped = 0]
    /\ Step("parse_file", p)
    /\ updated' = 0
    /\ UNCHANGED <<db, failures, calls, mode, last_ok, base, overlap, resolved, sheet, grid, parsed, gios>>

\* parse_xlsx_file raises
ParseRaises(p, text) ==
    /\ run[p].pc = "parse_xlsx_file"
    /\ failures < MaxFailures
    /\ failures' = failures + 1
    /\ run' = [run EXCEPT ![p].pc = "except", ![p].e = text,
                          ![p].raised_in = "parse_xlsx_file"]
    /\ Step("parse_raises", p)
    /\ updated' = 0
    /\ UNCHANGED <<db, calls, mode, last_ok, base, overlap, resolved, sheet, grid, parsed, gios>>

\* The keys a call of prepare_measurements_data did not find in its caches:
\* each is one call of get_or_create_station or get_or_create_indicator
CacheMisses(st) ==
    {[kind |-> "station", key |-> <<code>>] : code \in DOMAIN st.station_cache}
        \cup {[kind |-> "indicator", key |-> k] : k \in DOMAIN st.indicator_cache}

\* ... and what those calls returned
Resolutions(st, committed) ==
    {[kind |-> "station", key |-> <<code>>, id |-> st.station_cache[code],
      committed |-> committed] : code \in DOMAIN st.station_cache}
        \cup {[kind |-> "indicator", key |-> k, id |-> st.indicator_cache[k],
                committed |-> committed] : k \in DOMAIN st.indicator_cache}

Resolved(st, committed) ==
    IF mode = "seq" THEN resolved \cup Resolutions(st, committed) ELSE resolved

\* The keys of the rows a session has flushed and not committed
KeysOf(stations, indicators) ==
    {[kind |-> "station", key |-> <<s.code>>] : s \in stations}
        \cup {[kind |-> "indicator", key |-> <<x.name, x.unit>>] : x \in indicators}

PendingKeys(q) == KeysOf(run[q].txn.stations, run[q].txn.indicators)

NewKeys(d, e) == KeysOf(e.stations \ d.stations, e.indicators \ d.indicators)

\* An INSERT of one of the keys waits for the session that has flushed the
\* same key to commit or roll back
Waits(p, keys) == \E q \in Procs \ {p} : keys \cap PendingKeys(q) # {}

\* import_measurements_fast up to the commit of prepare_measurements_data
\* (importer.py 172-178, 40-90), every INSERT of it done without waiting
PrepareBatch(p) ==
    /\ run[p].pc = "prepare_measurements_data"
    /\ LET st == prepare_measurements_data(db, Batch(p), run[p].import_file) IN
        /\ ~Waits(p, NewKeys(db, st.db))
        /\ db' = st.db
        /\ run' = [run EXCEPT ![p].pc = "copy_measurements_to_db",
                              ![p].csv_buffer = st.csv,
                              ![p].imported = st.imported, ![p].skipped = st.skipped,
                              ![p].queried = @ \cup CacheMisses(st),
                              ![p].requeried = @ \cup (run[p].queried \cap CacheMisses(st)),
                              ![p].before = IF mode = "seq" THEN db ELSE EmptyDb]
        /\ resolved' = Resolved(st, TRUE)
    /\ Step("prepare_batch", p)
    /\ updated' = 0
    /\ UNCHANGED <<failures, calls, mode, last_ok, base, overlap, sheet, grid, parsed, gios>>

\* An exception after n records of the batch were prepared: the rollback of
\* the handler undoes the flushed stations and indicators, not the sequences
PrepareRaises(p, n, text) ==
    /\ run[p].pc = "prepare_measurements_data"
    /\ n <= Len(Batch(p))
    /\ failures < MaxFailures
    /\ failures' = failures + 1
    /\ LET st == prepare_measurements_data(db, SubSeq(Batch(p), 1, n), run[p].import_file) IN
        /\ ~Waits(p, NewKeys(db, st.db))
        /\ db' = [db EXCEPT !.seq = st.db.seq]
        /\ run' = [run EXCEPT ![p].pc = "except", ![p].e = text,
                              ![p].raised_in = "prepare_measurements_data",
                              ![p].queried = @ \cup CacheMisses(st),
                              ![p].requeried = @ \cup (run[p].queried \cap CacheMisses(st)),
                              ![p].before = IF mode = "seq" THEN db ELSE EmptyDb]
        /\ resolved' = Resolved(st, FALSE)
    /\ Step("prepare_raises", p)
    /\ updated' = 0
    /\ UNCHANGED <<calls, mode, last_ok, base, overlap, sheet, grid, parsed, gios>>

\* The store as the session of p reads it: what is committed and what the
\* session itself has flushed
View(p) ==
    [db EXCEPT !.stations = @ \cup run[p].txn.stations,
               !.indicators = @ \cup run[p].txn.indicators]

\* The loop of prepare_measurements_data from record n + 1 on, as far as its
\* lookups find their row in the cache or in the store: it stops at the
\* first query of get_or_create_station or get_or_create_indicator that
\* returns None, before the session.add
RECURSIVE RunToMiss(_, _, _, _)
RunToMiss(st, records, n, import_file_id) ==
    IF n >= Len(records)
    THEN [st |-> st, n |-> n, miss |-> "none"]
    ELSE LET record == records[n + 1] IN
         IF record.value = NULL
         THEN RunToMiss(PrepareRecord(st, record, import_file_id), records, n + 1,
                        import_file_id)
         ELSE IF /\ record.station_code \notin DOMAIN st.station_cache
                 /\ StationsByCode(st.db, record.station_code) = {}
         THEN [st |-> st, n |-> n, miss |-> "station"]
         ELSE LET t == ResolveStation(st, record) IN
              IF /\ <<record.indicator_name, record.unit>> \notin DOMAIN t.indicator_cache
                 /\ IndicatorsByKey(t.db, record.indicator_name, record.unit) = {}
              THEN [st |-> t, n |-> n, miss |-> "indicator"]
              ELSE RunToMiss(PrepareRecord(t, record, import_file_id), records, n + 1,
                             import_file_id)

\* The open transaction of p as the state of the loop
TxnState(p) ==
    [db |-> View(p), station_cache |-> run[p].txn.station_cache,
     indicator_cache |-> run[p].txn.indicator_cache, csv |-> run[p].txn.csv,
     imported |-> run[p].txn.imported, skipped |-> run[p].txn.skipped]

\* ... and the state of the loop as the open transaction
Txn(r) ==
    [n |-> r.n, station_cache |-> r.st.station_cache,
     indicator_cache |-> r.st.indicator_cache, csv |-> r.st.csv,
     imported |-> r.st.imported, skipped |-> r.st.skipped,
     stations |-> r.st.db.stations \ db.stations,
     indicators |-> r.st.db.indicators \ db.indicators, miss |-> r.miss]

\* The key of the lookup that found nothing
MissKey(p) ==
    LET record == Batch(p)[run[p].txn.n + 1] IN
    IF run[p].txn.miss = "station"
    THEN [kind |-> "station", key |-> <<record.station_code>>]
    ELSE [kind |-> "indicator", key |-> <<record.indicator_name, record.unit>>]

\* Another session has committed the key since the lookup
Committed(key) == key \in KeysOf(db.stations, db.indicators)

\* prepare_measurements_data up to the first lookup that finds no row, while
\* other sessions run (importer.py 50-69, db.py 155, 165-169)
PrepareSelect(p) ==
    /\ mode = "conc"
    /\ run[p].pc = "prepare_measurements_data"
    /\ LET r == RunToMiss(NewPrepareState(db), Batch(p), 0, run[p].import_file) IN
        /\ r.miss # "none"
        /\ run' = [run EXCEPT ![p].pc = "flush", ![p].txn = Txn(r)]
    /\ Step("prepare_select", p)
    /\ updated' = 0
    /\ UNCHANGED <<db, failures, calls, mode, last_ok, base, overlap, resolved, sheet, grid, parsed, gios>>

\* session.add and session.flush of the row the lookup did not find (db.py
\* 157-159, 171-173) and the loop up to the next such lookup, or up to the
\* commit of importer.py 85. The INSERT waits while another session holds the
\* key uncommitted.
Flush(p) ==
    /\ run[p].pc = "flush"
    /\ ~Waits(p, {MissKey(p)})
    /\ ~Committed(MissKey(p))
    /\ LET record == Batch(p)[run[p].txn.n + 1]
           t == IF run[p].txn.miss = "station"
                THEN ResolveStation(TxnState(p), record)
                ELSE ResolveIndicator(TxnState(p), record)
           r == RunToMiss(t, Batch(p), run[p].txn.n, run[p].import_file)
       IN IF r.miss = "none"
          THEN /\ db' = r.st.db
               /\ run' = [run EXCEPT ![p].pc = "copy_measurements_to_db",
                                     ![p].csv_buffer = r.st.csv,
                                     ![p].imported = r.st.imported,
                                     ![p].skipped = r.st.skipped,
                                     ![p].queried = @ \cup CacheMisses(r.st),
                                     ![p].requeried =
                                         @ \cup (run[p].queried \cap CacheMisses(r.st)),
                                     ![p].txn = NoTxn]
          ELSE /\ db' = [db EXCEPT !.seq = r.st.db.seq]
               /\ run' = [run EXCEPT ![p].txn = Txn(r)]
    /\ Step("flush", p)
    /\ updated' = 0
    /\ UNCHANGED <<failures, calls, mode, last_ok, base, overlap, resolved, sheet, grid, parsed, gios>>

\* The INSERT meets the row another session committed after the lookup: the
\* flush raises IntegrityError, which neither resolver catches
FlushRaises(p) ==
    /\ run[p].pc = "flush"
    /\ Committed(MissKey(p))
    /\ run' = [run EXCEPT ![p].pc = "except", ![p].e = UniqueViolation,
                          ![p].raised_in = "prepare_measurements_data",
                          ![p].txn = NoTxn]
    /\ Step("flush_raises", p)
    /\ updated' = 0
    /\ UNCHANGED <<db, failures, calls, mode, last_ok, base, overlap, resolved, sheet, grid, parsed, gios>>

NextBatchPc(p) ==
    IF run[p].i + BatchSize < Len(Records(p)) THEN "prepare_measurements_data"
    ELSE "completed"

\* A staging table that outlives the commit
OnCommitPreserveRows(staging) == staging

\* measurements_staging after the commit: ON COMMIT DROP (importer.py 116)
OnCommitDrop(staging) == <<>>

\* The rest of import_measurements_fast (importer.py 180-184): COPY appends
\* the buffer to the staging table of the session and the INSERT ... SELECT
\* reads the whole table, pick being the row DISTINCT ON keeps for each key;
\* nothing of it is committed when the call returns
CopyBatch(p, pick) ==
    /\ run[p].pc = "copy_measurements_to_db"
    /\ run' = [run EXCEPT ![p].pc = "commit",
                          ![p].staging = IF run[p].imported > 0
                                         THEN @ \o run[p].csv_buffer ELSE @,
                          ![p].pick = IF run[p].imported > 0 THEN pick ELSE <<>>]
    /\ Step("copy_batch", p)
    /\ updated' = 0
    /\ UNCHANGED <<db, failures, calls, mode, last_ok, base, overlap, resolved, sheet, grid, parsed, gios>>

\* The batch's commit (importer.py 250-255): the merged rows become durable
\* and the staging table is dropped
CommitBatch(p) ==
    /\ run[p].pc = "commit"
    /\ db' = IF run[p].staging # <<>>
             THEN [db EXCEPT !.measurements =
                       copy_measurements_to_db(@, run[p].staging, run[p].pick)]
             ELSE db
    /\ run' = [run EXCEPT ![p].pc = NextBatchPc(p),
                          ![p].file_imported = @ + run[p].imported,
                          ![p].file_skipped = @ + run[p].skipped,
                          ![p].i = @ + BatchSize,
                          ![p].csv_buffer = <<>>,
                          ![p].staging = OnCommitDrop(@),
                          ![p].pick = <<>>,
                          ![p].imported = 0, ![p].skipped = 0,
                          ![p].before = EmptyDb]
    /\ base' = IF mode = "seq" THEN [base EXCEPT !.current = TRUE] ELSE base
    /\ Step("commit_batch", p)
    /\ updated' = 0
    /\ UNCHANGED <<failures, calls, mode, last_ok, overlap, resolved, sheet, grid, parsed, gios>>

\* A load that commits row by row: the first row is durable when it raises
CopyRaisesAfterFirstRow(p, text) ==
    /\ run[p].pc = "copy_measurements_to_db"
    /\ failures < MaxFailures
    /\ failures' = failures + 1
    /\ db' = IF run[p].imported > 0
             THEN [db EXCEPT !.measurements = InsertOnConflict(@, run[p].csv_buffer[1])]
             ELSE db
    /\ run' = [run EXCEPT ![p].pc = "except", ![p].e = text, ![p].csv_buffer = <<>>,
                          ![p].raised_in = "copy_measurements_to_db",
                          ![p].imported = 0, ![p].skipped = 0]
    /\ Step("copy_raises", p)
    /\ updated' = 0
    /\ UNCHANGED <<calls, mode, last_ok, base, overlap, resolved, sheet, grid, parsed, gios>>

\* COPY or the INSERT raises: nothing of the batch is staged or committed
CopyRaises(p, text) ==
    /\ run[p].pc = "copy_measurements_to_db"
    /\ failures < MaxFailures
    /\ failures' = failures + 1
    /\ run' = [run EXCEPT ![p].pc = "except", ![p].e = text, ![p].csv_buffer = <<>>,
                          ![p].raised_in = "copy_measurements_to_db",
                          ![p].imported = 0, ![p].skipped = 0]
    /\ Step("copy_raises", p)
    /\ updated' = 0
    /\ UNCHANGED <<db, calls, mode, last_ok, base, overlap, resolved, sheet, grid, parsed, gios>>

SetCompleted(p, f) ==
    [f EXCEPT !.status = COMPLETED,
              !.records_imported = run[p].file_imported,
              !.records_skipped = run[p].file_skipped,
              !.completed_at = Now]

\* After the last batch the file is committed COMPLETED with its counts
\* (importer.py 257-268)
CompleteFile(p) ==
    /\ run[p].pc = "completed"
    /\ db' = UpdateImportFile(db, SetCompleted(p, ImportFileById(db, run[p].import_file)))
    /\ run' = [run EXCEPT ![p].pc = "is_file_completed",
                          ![p].total_imported = @ + run[p].file_imported,
                          ![p].total_skipped = @ + run[p].file_skipped,
                          ![p].file_imported = 0, ![p].file_skipped = 0,
                          ![p].records = <<>>,
                          ![p].i = 0, ![p].idx = @ + 1,
                          ![p].callbacks = Append(@, "on_file_complete")]
    /\ base' = IF mode = "seq" THEN [base EXCEPT !.done = TRUE] ELSE base
    /\ Step("complete_file", p)
    /\ updated' = 0
    /\ UNCHANGED <<failures, calls, mode, last_ok, overlap, resolved, sheet, grid, parsed, gios>>

\* ... and on_file_complete, called inside the try block after the commit,
\* raises: the handler is entered with the file committed COMPLETED
\* (importer.py 257-270)
FileCompleteRaises(p, text) ==
    /\ run[p].pc = "completed"
    /\ failures < MaxFailures
    /\ failures' = failures + 1
    /\ db' = UpdateImportFile(db, SetCompleted(p, ImportFileById(db, run[p].import_file)))
    /\ run' = [run EXCEPT ![p].pc = "except", ![p].e = text,
                          ![p].raised_in = "on_file_complete",
                          ![p].total_imported = @ + run[p].file_imported,
                          ![p].total_skipped = @ + run[p].file_skipped,
                          ![p].callbacks = Append(@, "on_file_complete")]
    /\ Step("file_complete_raises", p)
    /\ updated' = 0
    /\ UNCHANGED <<calls, mode, last_ok, base, overlap, resolved, sheet, grid, parsed, gios>>

\* A handler that marks the file and drops the message
SetFailedWithoutMessage(p, f) == [f EXCEPT !.status = FAILED]

\* A handler that stamps the failed file with a completion time
SetFailedWithCompletionTime(p, f) ==
    [f EXCEPT !.status = FAILED, !.error_message = run[p].e, !.completed_at = Now]

SetFailed(p, f) == [f EXCEPT !.status = FAILED, !.error_message = run[p].e]

Raised(p) ==
    [kind |-> "raised", text |-> run[p].e,
     total_imported |-> 0, total_skipped |-> 0, total_files_skipped |-> 0]

\* The handler: rollback, the file committed FAILED with str(e), and the
\* exception raised again through import_multiple_zips (importer.py 270-280)
Except(p) ==
    /\ run[p].pc = "except"
    /\ LET g == get_or_create_import_file(db, run[p].archive_name, File(p).filename)
       IN db' = UpdateImportFile(g.db, SetFailed(p, ImportFileById(g.db, g.id)))
    /\ run' = [run EXCEPT ![p] = [IdleRun EXCEPT !.result = Raised(p)]]
    /\ last_ok' = ""
    /\ Step("except", p)
    /\ updated' = 0
    /\ UNCHANGED <<failures, calls, mode, base, overlap, resolved, sheet, grid, parsed, gios>>

\* The loop over the files ends: import_zip_file returns its totals and
\* import_multiple_zips adds them up (importer.py 279-282, 325-330)
ImportZipFileReturn(p) ==
    /\ run[p].pc = "is_file_completed"
    /\ run[p].idx > Len(Files(p))
    /\ run' = [run EXCEPT ![p].pc = "import_zip_file",
                          ![p].zi = @ + 1,
                          ![p].sum_imported = @ + run[p].total_imported,
                          ![p].sum_skipped = @ + run[p].total_skipped,
                          ![p].sum_files_skipped = @ + run[p].files_skipped,
                          ![p].idx = 0, ![p].import_file = 0,
                          ![p].snap = EmptyDb,
                          ![p].queried = {}, ![p].requeried = {}]
    /\ last_ok' = IF mode = "seq" THEN run[p].archive_name ELSE ""
    /\ Step("import_zip_file_return", p)
    /\ updated' = 0
    /\ base' = BaseAfter
    /\ UNCHANGED <<db, failures, calls, mode, overlap, resolved, sheet, grid, parsed, gios>>

Returned(p) ==
    [kind |-> "returned", text |-> NoText,
     total_imported |-> run[p].sum_imported, total_skipped |-> run[p].sum_skipped,
     total_files_skipped |-> run[p].sum_files_skipped]

\* import_multiple_zips returns after its last archive (importer.py 313, 332)
ImportMultipleZipsReturn(p) ==
    /\ run[p].pc = "import_zip_file"
    /\ run[p].zi > Len(run[p].zip_paths)
    /\ run' = [run EXCEPT ![p] = [IdleRun EXCEPT !.result = Returned(p)]]
    /\ Step("import_multiple_zips_return", p)
    /\ updated' = 0
    /\ UNCHANGED <<db, failures, calls, mode, last_ok, base, overlap, resolved, sheet, grid, parsed, gios>>

Crashed == [NoResult EXCEPT !.kind = "crashed"]

\* The process dies between two steps: what is committed stays
Crash(p) ==
    /\ run[p].pc # "idle"
    /\ failures < MaxFailures
    /\ failures' = failures + 1
    /\ run' = [run EXCEPT ![p] = [IdleRun EXCEPT !.result = Crashed]]
    /\ last_ok' = ""
    /\ Step("crash", p)
    /\ updated' = 0
    /\ base' = BaseAfter
    /\ UNCHANGED <<db, calls, mode, overlap, resolved, sheet, grid, parsed, gios>>

\* A filter that leaves the FAILED rows out
ResetFilterInProgressOnly(f) == f.status = IN_PROGRESS

\* A filter that takes every row that is not PENDING
ResetFilterNotPending(f) == f.status # PENDING

\* The rows the UPDATE of reset-failed matches
ResetFilter(f) == f.status \in {FAILED, IN_PROGRESS}

\* cmd_reset_failed (cli.py 268-276)
ResetFailed ==
    /\ mode = "seq" => \A q \in Procs : run[q].pc = "idle"
    /\ db' = [db EXCEPT !.import_files =
                 {IF ResetFilter(f) THEN [f EXCEPT !.status = PENDING] ELSE f : f \in @}]
    /\ updated' = Cardinality({f \in db.import_files : ResetFilter(f)})
    /\ last_ok' = ""
    /\ Step("reset_failed", 0)
    /\ UNCHANGED <<run, failures, calls, mode, base, overlap, resolved, sheet, grid, parsed, gios>>

Next ==
    \/ \E p \in Procs : \E zip_paths \in ZipPathLists : ImportMultipleZips(p, zip_paths)
    \/ \E p \in Procs : ImportZipFile(p)
    \/ \E p \in Procs : SkipFile(p)
    \/ \E p \in Procs : StartFile(p)
    \/ \E p \in Procs : \E text \in ExceptionTexts : CallbackRaises(p, text)
    \/ \E p \in Procs : MarkInProgress(p)
    \/ \E p \in Procs : ParseFile(p)
    \/ \E p \in Procs : \E text \in ExceptionTexts : ParseRaises(p, text)
    \/ \E p \in Procs : PrepareBatch(p)
    \/ \E p \in Procs : \E n \in 0..BatchSize : \E text \in ExceptionTexts :
          PrepareRaises(p, n, text)
    \/ \E p \in Procs : \E pick \in DistinctOnChoices(run[p].staging \o run[p].csv_buffer) :
          CopyBatch(p, pick)
    \/ \E p \in Procs : CommitBatch(p)
    \/ \E p \in Procs : \E text \in ExceptionTexts : CopyRaises(p, text)
    \/ \E p \in Procs : CompleteFile(p)
    \/ \E p \in Procs : \E text \in ExceptionTexts : FileCompleteRaises(p, text)
    \/ \E p \in Procs : Except(p)
    \/ \E p \in Procs : ImportZipFileReturn(p)
    \/ \E p \in Procs : ImportMultipleZipsReturn(p)
    \/ \E p \in Procs : Crash(p)
    \/ ResetFailed

\* Operations one after another
Spec == Init /\ [][Next]_vars

\* The import of one archive of one file, over the worksheets that file may hold
SpecSheet == InitSheet /\ [][Next]_vars

\* ... and with the lookups and the INSERTs of prepare_measurements_data as
\* steps of their own
NextConc ==
    \/ Next
    \/ \E p \in Procs : PrepareSelect(p)
    \/ \E p \in Procs : Flush(p)
    \/ \E p \in Procs : FlushRaises(p)

\* Two importing processes and the reset interleaved step by step
SpecConc == InitConc /\ [][NextConc]_vars

\* parse_xlsx_file is called on the grid (parser.py 141-195)
ParseXlsxFile ==
    /\ parsed = NotParsed
    /\ mode = "seq" /\ calls = 0 /\ \A q \in Procs : run[q].pc = "idle"
    /\ parsed' = ParseFrame(grid)
    /\ UNCHANGED <<db, run, updated, failures, calls, mode, op, last_ok, base, overlap,
                   resolved, sheet, grid, gios>>

NextGrid == ParseXlsxFile

\* The parser on its own, over the grids a readable file may hold
SpecGrid == InitGrid /\ [][NextGrid]_vars

\* ------------------------------------------------------------ the properties
NaturalKey(r) ==
    <<r.station_code, r.indicator_name, r.unit, r.averaging_time, r.measured_at>>

ValueBearing(records) == {k \in DOMAIN records : records[k].value # NULL}

Absent(records) == {k \in DOMAIN records : records[k].value = NULL}

\* The import_files row with an id
ImportFileRow(d, id) == CHOOSE f \in d.import_files : f.id = id

\* C1: in every durable state no two Measurement rows share
\* (station_id, indicator_id, averaging_time, measured_at).
C1_Uniqueness ==
    \A a, b \in DOMAIN db.measurements :
        StagedKey(db.measurements[a]) = StagedKey(db.measurements[b]) => a = b

\* A batch was merged over a row another file had written
C1_Witness ==
    /\ op.name = "commit_batch"
    /\ \E m \in MeasurementView(db) : \E b \in base.measurements :
          NaturalKey(m) = NaturalKey(b) /\ m.import_file_id # b.import_file_id

\* The step by which import_zip_file returns at process p
ReturnsAt(p) ==
    run[p].pc = "is_file_completed" /\ run'[p].pc = "import_zip_file"

\* C2: when import_zip_file returns for an archive whose previous import was
\* the last operation to end and returned too, the Measurement rows (key,
\* value, owning file) and every ImportFile's counts are what they were when
\* this second import began.
C2_Idempotent ==
    [][\A p \in Procs :
        (ReturnsAt(p) /\ run[p].prev = run[p].archive_name) =>
            /\ MeasurementView(db') = MeasurementView(run[p].snap)
            /\ Len(db'.measurements) = Len(run[p].snap.measurements)
            /\ \A f \in db'.import_files : \E g \in run[p].snap.import_files :
                  /\ g.id = f.id
                  /\ g.records_imported = f.records_imported
                  /\ g.records_skipped = f.records_skipped]_vars

\* The second import of an archive has returned, over a store with measurements
C2_Witness ==
    /\ op.name = "import_zip_file_return"
    /\ \E p \in Procs : run[p].prev = run[p].archive_name
    /\ Len(db.measurements) > 0

\* The batch (counted from 0) of the record at position k of a file
BatchOf(k) == (k - 1) \div BatchSize

\* What one uninterrupted import of a file (records, row id) leaves in store d,
\* begun on the measurements before: the keys of its value-bearing records
\* added, each with a value of the last batch that holds the key and owned by
\* the file, every other row as before, the file COMPLETED with its counts.
CleanOutcome(before, records, id, d) ==
    LET view == MeasurementView(d)
        fileKeys == {NaturalKey(records[k]) : k \in ValueBearing(records)}
        LastBatch(key) ==
            CHOOSE b \in {BatchOf(k) : k \in ValueBearing(records)} :
                /\ \E k \in ValueBearing(records) :
                      NaturalKey(records[k]) = key /\ BatchOf(k) = b
                /\ \A k \in ValueBearing(records) :
                      NaturalKey(records[k]) = key => BatchOf(k) <= b
    IN  /\ Cardinality({NaturalKey(m) : m \in view}) = Len(d.measurements)
        /\ {NaturalKey(m) : m \in view} = {NaturalKey(m) : m \in before} \cup fileKeys
        /\ \A m \in view : NaturalKey(m) \notin fileKeys => m \in before
        /\ \A m \in view : NaturalKey(m) \in fileKeys =>
              /\ m.import_file_id = id
              /\ \E k \in ValueBearing(records) :
                    /\ NaturalKey(records[k]) = NaturalKey(m)
                    /\ BatchOf(k) = LastBatch(NaturalKey(m))
                    /\ m.value = Format2(records[k].value)
        /\ ImportFileRow(d, id).status = COMPLETED
        /\ ImportFileRow(d, id).records_imported = Cardinality(ValueBearing(records))
        /\ ImportFileRow(d, id).records_skipped = Cardinality(Absent(records))

BaseRecords == parse_xlsx_file(iter_xlsx_from_zip(base.archive_name)[base.idx])

\* C3: a file completed after earlier attempts at it were interrupted, batches
\* of them committed, ends in a store an uninterrupted import of the file
\* leaves on the store the first attempt began with.
C3_ReprocessLikeClean ==
    base.done => CleanOutcome(base.measurements, BaseRecords, base.import_file_id, db)

\* A file is completed whose earlier, interrupted attempt had committed a batch
C3_Witness == base.done /\ base.committed

\* The step that ends a batch at process p: its merge and its commit
CopiesAt(p) ==
    /\ run[p].pc = "commit"
    /\ run'[p].pc \in {"prepare_measurements_data", "completed"}

\* The staged values are those of the value-bearing records, in their order
StagedFrom(csv, records) ==
    /\ Len(csv) = Cardinality(ValueBearing(records))
    /\ \A k \in ValueBearing(records) :
          csv[Cardinality({j \in ValueBearing(records) : j <= k})].value
              = Format2(records[k].value)

\* The keys of the batch that only records without a value carry
OnlyAbsentKeys(records) ==
    {NaturalKey(records[k]) : k \in Absent(records)}
        \ {NaturalKey(records[k]) : k \in ValueBearing(records)}

\* C4: the staging buffer of a batch holds its value-bearing records only; the
\* batch adds the number of its records without a value to the skipped count
\* and the number of the others to the imported count; and a key that only
\* records without a value carry has the Measurement row it had, or none.
C4_NullSkip ==
    [][\A p \in Procs : CopiesAt(p) =>
        /\ StagedFrom(run[p].csv_buffer, Batch(p))
        /\ run'[p].file_skipped = run[p].file_skipped + Cardinality(Absent(Batch(p)))
        /\ run'[p].file_imported = run[p].file_imported
                                      + Cardinality(ValueBearing(Batch(p)))
        /\ \A key \in OnlyAbsentKeys(Batch(p)) :
              {m \in MeasurementView(db') : NaturalKey(m) = key}
                  = {m \in MeasurementView(db) : NaturalKey(m) = key}]_vars

\* The batch that the last step of p ended
EndedBatch(p) ==
    SubSeq(Records(p), run[p].i - BatchSize + 1, Min(run[p].i, Len(Records(p))))

\* A batch was merged that holds a record without a value whose key has a row
C4_Witness ==
    /\ op.name = "commit_batch"
    /\ \E p \in Procs :
          /\ op.proc = p
          /\ run[p].file_skipped > 0
          /\ \E key \in OnlyAbsentKeys(EndedBatch(p)) :
                \E m \in MeasurementView(db) : NaturalKey(m) = key

\* The run at p stands at a file whose ImportFile is COMPLETED
AtCompletedFile(p) ==
    /\ run[p].pc = "is_file_completed"
    /\ run[p].idx <= Len(Files(p))
    /\ \E f \in db.import_files :
          /\ f.archive_name = run[p].archive_name
          /\ f.filename = File(p).filename
          /\ f.status = COMPLETED

\* C5: the step of a run at a file whose ImportFile is COMPLETED changes no
\* row of the store and, unless the caller's on_file_skip raises and ends the
\* run, counts one more skipped file, adds nothing to the totals and goes on
\* to the next file without parsing or loading.
C5_SkipCompleted ==
    [][\A p \in Procs : (AtCompletedFile(p) /\ run'[p] # run[p] /\ op'.name # "crash") =>
        /\ db' = db
        /\ op'.name # "callback_raises" =>
             /\ run'[p].files_skipped = run[p].files_skipped + 1
             /\ run'[p].total_imported = run[p].total_imported
             /\ run'[p].total_skipped = run[p].total_skipped
             /\ run'[p].pc = "is_file_completed"
             /\ run'[p].idx = run[p].idx + 1]_vars

\* A run has skipped a completed file
C5_Witness ==
    /\ op.name = "skip_file"
    /\ \E p \in Procs : run[p].files_skipped > 0 /\ Len(db.measurements) > 0

\* The step of the handler of import_zip_file at process p
HandlesAt(p) ==
    run[p].pc = "except" /\ run'[p].pc = "idle" /\ op'.name = "except"

\* C6: when parsing or loading a file raised, the handler leaves the file's
\* ImportFile FAILED with a non-empty error_message and raises again.
C6_FailedWithMessage ==
    [][\A p \in Procs : HandlesAt(p) =>
        /\ run'[p].result.kind = "raised"
        /\ \E f \in db'.import_files :
              /\ f.archive_name = run[p].archive_name
              /\ f.filename = File(p).filename
              /\ f.status = FAILED
              /\ f.error_message \notin {NoText, ""}]_vars

\* C7: a reset leaves every FAILED file PENDING, and an import_zip_file that
\* returns (nothing in it raised) leaves every qualifying file of its archive
\* COMPLETED, the files that had failed and were reset among them.
C7_ResetThenRerun ==
    [][/\ op'.name = "reset_failed" =>
            \A f \in db.import_files :
                f.status = FAILED => ImportFileRow(db', f.id).status = PENDING
       /\ \A p \in Procs : ReturnsAt(p) =>
            \A k \in DOMAIN Files(p) : \E f \in db'.import_files :
                /\ f.archive_name = run[p].archive_name
                /\ f.filename = Files(p)[k].filename
                /\ f.status = COMPLETED]_vars

\* An import returned whose last file had failed (it carries an error message)
\* and had been reset to PENDING when the import began it, and is COMPLETED
C7_Witness ==
    /\ op.name = "import_zip_file_return"
    /\ \E p \in Procs :
          /\ run[p].found.status = PENDING
          /\ run[p].found.error_message # NoText
          /\ ImportFileRow(db, run[p].found.id).status = COMPLETED

\* C8: reset-failed turns exactly the FAILED and IN_PROGRESS ImportFiles to
\* PENDING and changes nothing else of them, reports the number of rows it
\* changed, and leaves the COMPLETED and PENDING ImportFiles, the stations,
\* the indicators and the measurements as they were.
C8_ResetFrame ==
    [][op'.name = "reset_failed" =>
        /\ {f.id : f \in db'.import_files} = {f.id : f \in db.import_files}
        /\ Cardinality(db'.import_files) = Cardinality(db.import_files)
        /\ \A f \in db.import_files :
              /\ f.status \in {FAILED, IN_PROGRESS} =>
                    ImportFileRow(db', f.id) = [f EXCEPT !.status = PENDING]
              /\ f.status \in {COMPLETED, PENDING} => ImportFileRow(db', f.id) = f
        /\ updated' = Cardinality({f \in db.import_files : ImportFileRow(db', f.id) # f})
        /\ db'.stations = db.stations
        /\ db'.indicators = db.indicators
        /\ db'.measurements = db.measurements]_vars

\* A reset changed a row while a COMPLETED file and measurements were there
C8_Witness ==
    /\ op.name = "reset_failed"
    /\ updated > 0
    /\ \E f \in db.import_files : f.status = COMPLETED
    /\ Len(db.measurements) > 0

\* The status changes of an ImportFile in a step
StatusChanges ==
    {<<f.status, g.status>> : <<f, g>> \in
        {t \in db.import_files \X db'.import_files :
            t[1].id = t[2].id /\ t[1].status # t[2].status}}

ClaimedTransitions ==
    { <<PENDING, IN_PROGRESS>>, <<IN_PROGRESS, COMPLETED>>, <<IN_PROGRESS, FAILED>>,
      <<FAILED, PENDING>>, <<IN_PROGRESS, PENDING>> }

\* C9: with operations one after another every status change of an
\* ImportFile is PENDING to IN_PROGRESS, IN_PROGRESS to COMPLETED or FAILED, or
\* FAILED or IN_PROGRESS to PENDING.
C9_TransitionsAsClaimed == [][StatusChanges \subseteq ClaimedTransitions]_vars

\* Every ImportFile that is COMPLETED stays COMPLETED in the step
CompletedStays ==
    \A f \in db.import_files :
        f.status = COMPLETED => ImportFileRow(db', f.id).status = COMPLETED

\* C10: COMPLETED is never left, also when two imports of the same
\* archive run concurrently and resets are interleaved.
C10_TerminalAlways == [][CompletedStays]_vars

\* The natural key of the Measurement row at position k of the table
RowKey(d, k) ==
    LET row == d.measurements[k]
        s == CHOOSE s \in d.stations : s.id = row.station_id
        x == CHOOSE x \in d.indicators : x.id = row.indicator_id
    IN <<s.code, x.name, x.unit, row.averaging_time, row.measured_at>>

KeyRows(d, key) == {k \in DOMAIN d.measurements : RowKey(d, k) = key}

BatchKeys(records) == {NaturalKey(records[k]) : k \in ValueBearing(records)}

\* C11: the merge of a batch leaves, for every natural key a value-bearing
\* record of the batch carries, exactly one Measurement row, with a value the
\* batch has for that key and owned by the batch's ImportFile, whether the key
\* had a row before or not; the rows of every other key are as they were.
C11_MergeBatch ==
    [][\A p \in Procs : CopiesAt(p) =>
        /\ \A key \in BatchKeys(Batch(p)) :
              /\ Cardinality(KeyRows(db', key)) = 1
              /\ \A r \in KeyRows(db', key) :
                    /\ db'.measurements[r].import_file_id = run[p].import_file
                    /\ \E k \in ValueBearing(Batch(p)) :
                          /\ NaturalKey(Batch(p)[k]) = key
                          /\ db'.measurements[r].value = Format2(Batch(p)[k].value)
        /\ \A m \in MeasurementView(db) \cup MeasurementView(db') :
              NaturalKey(m) \notin BatchKeys(Batch(p)) =>
                  m \in MeasurementView(db) \cap MeasurementView(db')
        /\ \A key \in {RowKey(db, k) : k \in DOMAIN db.measurements} \ BatchKeys(Batch(p)) :
              Cardinality(KeyRows(db', key)) = Cardinality(KeyRows(db, key))]_vars

\* A batch was merged that overwrote the row another file owned (the value
\* changed with the owner) and added a row for a key that had none, while a
\* row of a key outside the batch stayed
C11_Witness ==
    /\ op.name = "commit_batch"
    /\ \E p \in Procs :
          /\ op.proc = p
          /\ \E m \in MeasurementView(db) : \E b \in base.measurements :
                /\ NaturalKey(m) = NaturalKey(b)
                /\ NaturalKey(m) \in BatchKeys(EndedBatch(p))
                /\ m.import_file_id = run[p].import_file
                /\ b.import_file_id # m.import_file_id
                /\ b.value # m.value
          /\ \E m \in MeasurementView(db) :
                /\ NaturalKey(m) \in BatchKeys(EndedBatch(p))
                /\ \A b \in base.measurements : NaturalKey(b) # NaturalKey(m)
          /\ \E m \in MeasurementView(db) : NaturalKey(m) \notin BatchKeys(EndedBatch(p))

\* The staged rows of a key
StagedRows(csv, key) == {csv[k] : k \in {j \in DOMAIN csv : StagedKey(csv[j]) = key}}

\* C12: of the staged rows of a batch that share a key the INSERT ... SELECT
\* merges one with the highest import_file_id, and whichever row DISTINCT ON
\* keeps, the merge of the batch into the store gives the same rows: two
\* merges of the same batch on the same store store the same values.
C12_DeterministicTieBreak ==
    \A p \in Procs :
        (run[p].pc = "copy_measurements_to_db" /\ run[p].imported > 0) =>
            \A pick1, pick2 \in DistinctOnChoices(run[p].csv_buffer) :
                /\ \A key \in StagedKeys(run[p].csv_buffer) :
                      \A o \in StagedRows(run[p].csv_buffer, key) :
                          o.import_file_id <= pick1[key].import_file_id
                /\ copy_measurements_to_db(db.measurements, run[p].csv_buffer, pick1)
                     = copy_measurements_to_db(db.measurements, run[p].csv_buffer, pick2)

\* The durable store holds one Station per code and one Indicator per
\* (name, unit), each under an id of its own
OnePerKey ==
    /\ \A s, t \in db.stations : (s.code = t.code \/ s.id = t.id) => s = t
    /\ \A x, y \in db.indicators :
          ((x.name = y.name /\ x.unit = y.unit) \/ x.id = y.id) => x = y

C14_QueriedOnce == \A p \in Procs : run[p].requeried = {}

\* The step by which the run at p passes the completed-check of a file
PassesCheckAt(p) ==
    /\ run[p].pc = "is_file_completed"
    /\ run[p].idx <= Len(Files(p))
    /\ run'[p].pc \notin {"is_file_completed", "idle"}

\* The step by which the run at p marks its file
MarksAt(p) ==
    run[p].pc = "get_or_create_import_file" /\ run'[p].pc = "parse_xlsx_file"

\* C15: the completed-check and the IN_PROGRESS write are two steps. The step
\* that passes the check writes nothing, so the file's row still passes the
\* check of another run; the later step that marks the file does so whatever
\* the row has become in between, and only then the file is parsed.
C15_CheckThenMark ==
    [][\A p \in Procs :
        /\ PassesCheckAt(p) =>
              /\ db' = db
              /\ run'[p].pc = "get_or_create_import_file"
              /\ ~is_file_completed(db', run[p].archive_name, File(p).filename)
        /\ MarksAt(p) =>
              /\ \E f \in db'.import_files :
                    /\ f.id = run'[p].import_file
                    /\ f.archive_name = run[p].archive_name
                    /\ f.filename = File(p).filename
                    /\ f.status = IN_PROGRESS
              /\ db'.measurements = db.measurements]_vars

\* Two runs over one archive have both passed the check of the same file,
\* both marked it (the second found it IN_PROGRESS) and both parsed it and
\* loaded all its batches
C15_Witness ==
    \E p, q \in Procs :
        /\ p # q
        /\ run[p].archive_name = run[q].archive_name
        /\ run[p].idx = run[q].idx
        /\ run[p].import_file = run[q].import_file
        /\ run[p].pc = "completed" /\ run[q].pc = "completed"
        /\ run[p].file_imported > 0 /\ run[q].file_imported > 0
        /\ run[p].found.status # COMPLETED
        /\ run[q].found.status = IN_PROGRESS

\* The merge of a batch at p has left one row for every key staged
MergedOnce(p) ==
    \A key \in BatchKeys(Batch(p)) :
        /\ Cardinality(KeyRows(db', key)) = 1
        /\ \A r \in KeyRows(db', key) :
              /\ db'.measurements[r].import_file_id = run[p].import_file
              /\ \E k \in ValueBearing(Batch(p)) :
                    /\ NaturalKey(Batch(p)[k]) = key
                    /\ db'.measurements[r].value = Format2(Batch(p)[k].value)

\* C16: with two import runs interleaved step by step, whatever rows the
\* other run has written, the table never holds two rows of one natural key,
\* a run whose batch meets rows of its keys merges it by overwriting them, and
\* no run and no file carries the error of a uniqueness violation on account
\* of the measurements.
C16_ConcurrentUpsert ==
    [][/\ \A a, b \in DOMAIN db'.measurements :
             StagedKey(db'.measurements[a]) = StagedKey(db'.measurements[b]) => a = b
       /\ \A p \in Procs :
             /\ CopiesAt(p) => MergedOnce(p)
             /\ run[p].pc = "copy_measurements_to_db" =>
                   (run'[p].pc = "except" => run'[p].e \in ExceptionTexts)]_vars

\* The keys of the records of its file that the run at p has merged
MergedKeys(p) ==
    BatchKeys(SubSeq(Records(p), 1, Min(run[p].i, Len(Records(p)))))

\* Two runs are inside files of different archives at once, and a key both
\* have merged has its one row
C16_Witness ==
    \E p, q \in Procs :
        /\ p # q
        /\ InsideZip(p) /\ InsideZip(q)
        /\ run[p].import_file # 0 /\ run[q].import_file # 0
        /\ run[p].archive_name # run[q].archive_name
        /\ \E key \in MergedKeys(p) \cap MergedKeys(q) :
              Cardinality(KeyRows(db, key)) = 1

\* C17: when two concurrent runs both reference a station code or an
\* indicator for the first time, no run ends in the handler with the error of
\* the duplicate key and no file is FAILED with it: both get the id of the
\* one row.
C17_RaceAbsorbed ==
    /\ \A p \in Procs : run[p].e # UniqueViolation
    /\ \A f \in db.import_files : f.error_message # UniqueViolation

\* The handler runs at p for an exception raised while a batch was prepared
\* or merged
HandlesBatchFailureAt(p) ==
    /\ HandlesAt(p)
    /\ run[p].raised_in \in {"prepare_measurements_data", "copy_measurements_to_db"}

\* The files the run at p has not reached: the later files of its archive and
\* the files of the later archives of its list
LaterFiles(p) ==
    {[archive_name |-> run[p].archive_name, filename |-> Files(p)[k].filename] :
        k \in {j \in DOMAIN Files(p) : j > run[p].idx}}
    \cup {[archive_name |-> run[p].zip_paths[z],
           filename |-> iter_xlsx_from_zip(run[p].zip_paths[z])[k].filename] :
           <<z, k>> \in {t \in (DOMAIN run[p].zip_paths) \X (1..4) :
               t[1] > run[p].zi /\ t[2] <= Len(iter_xlsx_from_zip(run[p].zip_paths[t[1]]))}}

\* C18: the handler of a failure during a batch leaves the file FAILED with
\* str(e), changes nothing else of the store (no other ImportFile, no
\* measurement, no station, no indicator), and ends the run by raising the
\* exception through import_multiple_zips: the later files of the archive and
\* the later archives of the list are not begun.
C18_FailureAbortsRun ==
    [][\A p \in Procs : HandlesBatchFailureAt(p) =>
        /\ ImportFileRow(db', run[p].import_file)
              = [ImportFileRow(db, run[p].import_file)
                    EXCEPT !.status = FAILED, !.error_message = run[p].e]
        /\ ImportFileRow(db, run[p].import_file).filename = File(p).filename
        /\ \A f \in db.import_files \cup db'.import_files :
              f.id # run[p].import_file => f \in db.import_files \cap db'.import_files
        /\ db'.measurements = db.measurements
        /\ db'.stations = db.stations /\ db'.indicators = db.indicators
        /\ run'[p].result.kind = "raised" /\ run'[p].result.text = run[p].e
        /\ run'[p].pc = "idle" /\ run'[p].zip_paths = <<>>
        /\ \A l \in LaterFiles(p) :
              ImportFilesByKey(db', l.archive_name, l.filename)
                  = ImportFilesByKey(db, l.archive_name, l.filename)]_vars

\* The handler has run for a failure in the second batch of a file (its
\* first batch is committed), and the later file of the archive has no
\* ImportFile
C18_Witness ==
    /\ op.name = "except"
    /\ \E f \in db.import_files :
          /\ f.status = FAILED
          /\ f.error_message \in ExceptionTexts
          /\ f.archive_name = "a1.zip"
          /\ \E k \in DOMAIN db.measurements : db.measurements[k].import_file_id = f.id
          /\ \E k \in DOMAIN iter_xlsx_from_zip("a1.zip") :
                ImportFilesByKey(db, "a1.zip", iter_xlsx_from_zip("a1.zip")[k].filename) = {}
    /\ \E p \in Procs : run[p].result.kind = "raised"

\* C19: when parse_xlsx_file raised, the handler leaves the file FAILED and
\* the run goes on to the next qualifying file of the archive.
C19_ParseFailureFileLocal ==
    [][\A p \in Procs :
        (/\ run[p].pc = "except"
         /\ run[p].raised_in = "parse_xlsx_file"
         /\ run'[p] # run[p]
         /\ op'.name # "crash") =>
            /\ ImportFileRow(db', run[p].import_file).status = FAILED
            /\ run'[p].pc = "is_file_completed"
            /\ run'[p].idx = run[p].idx + 1]_vars

\* S, R and k of the worksheet of a3.zip: the station columns, the rows with
\* a timestamp, and the empty data cells of those rows
SheetS == Len(sheet.station_codes)

TimestampedRows == {i \in DOMAIN sheet.rows : sheet.rows[i].timestamp # NaT}

SheetR == Cardinality(TimestampedRows)

SheetK ==
    Cardinality({t \in TimestampedRows \X (1..SheetS) :
                    sheet.rows[t[1]].cells[t[2]] = NULL})

\* C20: the import of an archive of one file with S station columns, R rows
\* with a timestamp and k empty cells, begun on an empty store and returning,
\* returns (S*R - k, k, 0) and leaves the file COMPLETED with records_imported
\* S*R - k, records_skipped k and its completion time.
C20_Counts ==
    [][\A p \in Procs :
        (ReturnsAt(p) /\ run[p].archive_name = "a3.zip" /\ run[p].snap = EmptyDb) =>
            /\ run[p].total_imported = SheetS * SheetR - SheetK
            /\ run[p].total_skipped = SheetK
            /\ run[p].files_skipped = 0
            /\ run'[p].sum_imported = SheetS * SheetR - SheetK
            /\ run'[p].sum_skipped = SheetK
            /\ run'[p].sum_files_skipped = 0
            /\ Cardinality(db'.import_files) = 1
            /\ \A f \in db'.import_files :
                  /\ f.archive_name = "a3.zip"
                  /\ f.filename = Files(p)[1].filename
                  /\ f.status = COMPLETED
                  /\ f.records_imported = SheetS * SheetR - SheetK
                  /\ f.records_skipped = SheetK
                  /\ f.completed_at = Now]_vars

\* The import of a sheet of 2 stations, 3 timestamped rows and 1 empty cell
\* has returned (5, 1, 0) and the file is COMPLETED with 5 and 1
C20_Witness ==
    /\ op.name = "import_multiple_zips_return"
    /\ SheetS = 2 /\ SheetR = 3 /\ SheetK = 1
    /\ \E p \in Procs :
          /\ run[p].result.kind = "returned"
          /\ run[p].result.total_imported = 5
          /\ run[p].result.total_skipped = 1
          /\ run[p].result.total_files_skipped = 0
    /\ \E f \in db.import_files :
          /\ f.status = COMPLETED
          /\ f.records_imported = 5 /\ f.records_skipped = 1
          /\ f.completed_at = Now
    /\ Len(db.measurements) = 5

\* A member the walker is to yield: its name ends with ".xlsx" and holds no
\* exclusion pattern
IsSpreadsheet(m) ==
    /\ m.filename # <<>>
    /\ m.filename[Len(m.filename)] = ".xlsx"
    /\ \A k \in DOMAIN m.filename : m.filename[k] # "Depozycja"

\* ys is xs without the members that fail the test, in the order of xs, each
\* kept member once
YieldsInOrder(xs, ys) ==
    \E at \in [DOMAIN ys -> DOMAIN xs] :
        /\ \A i, j \in DOMAIN ys : i < j => at[i] < at[j]
        /\ \A i \in DOMAIN ys : ys[i] = xs[at[i]]
        /\ \A k \in DOMAIN xs : IsSpreadsheet(xs[k]) <=> (\E i \in DOMAIN ys : at[i] = k)

\* C23: the walker yields the members of an archive that end with ".xlsx" and
\* hold no exclusion pattern, in archive order and each once; a run stands
\* only at such members, only they have an ImportFile, and the skipped-file
\* count of a run never exceeds the yielded members it has passed.
C23_WalkerYields ==
    /\ \A zip_path \in ArchiveNames :
          YieldsInOrder(Namelist(zip_path), iter_xlsx_from_zip(zip_path))
    /\ \A f \in db.import_files :
          \E k \in DOMAIN Namelist(f.archive_name) :
              /\ Namelist(f.archive_name)[k].filename = f.filename
              /\ IsSpreadsheet(Namelist(f.archive_name)[k])
    /\ \A p \in Procs : InsideZip(p) =>
          /\ run[p].idx <= Len(Files(p)) => IsSpreadsheet(File(p))
          /\ run[p].files_skipped <= run[p].idx - 1
          /\ run[p].idx - 1 <= Cardinality({k \in DOMAIN Namelist(run[p].archive_name) :
                                               IsSpreadsheet(Namelist(run[p].archive_name)[k])})

\* The import of a1.zip, with a text file and an excluded spreadsheet among
\* its four members, has returned on its second time: two files skipped, two
\* ImportFiles
C23_Witness ==
    /\ op.name = "import_zip_file_return"
    /\ last_ok = "a1.zip"
    /\ Len(Namelist("a1.zip")) = 4
    /\ \E p \in Procs : run[p].sum_files_skipped = 2
    /\ Cardinality({f \in db.import_files : f.archive_name = "a1.zip"}) = 2

\* The bulk-loader call of a batch with value-bearing records has returned at
\* p and the commit of the batch is the next statement
ReturnedFromLoad(p) == run[p].pc = "commit" /\ run[p].imported > 0

\* The statement as given: nothing is staged once the bulk-loader call has
\* returned
C24_EmptyAtReturn ==
    \A p \in Procs : run[p].pc = "commit" => run[p].staging = <<>>

\* C24: the staging area of a session is empty at the start of every batch's
\* load; what the load has staged when the bulk-loader call returns is the
\* buffer of this batch and nothing else, and that is what the commit merges;
\* and the commit that follows the call leaves the staging area empty.
C24_EmptyAfterCommit ==
    [][\A p \in Procs :
          /\ run[p].pc \in {"prepare_measurements_data", "copy_measurements_to_db"} =>
                run[p].staging = <<>>
          /\ ReturnedFromLoad(p) =>
                /\ run[p].staging = run[p].csv_buffer
                /\ StagedFrom(run[p].staging, Batch(p))
                /\ \A k \in DOMAIN run[p].staging :
                      run[p].staging[k].import_file_id = run[p].import_file
          /\ CopiesAt(p) =>
                /\ run'[p].staging = <<>>
                /\ \A r \in DOMAIN db'.measurements :
                      \/ \E o \in DOMAIN db.measurements :
                            db.measurements[o] = db'.measurements[r]
                      \/ StagedKey(db'.measurements[r]) \in StagedKeys(run[p].csv_buffer)]_vars

\* The second batch of a file is about to be loaded after the first one, with
\* rows staged, was committed
C24_Witness ==
    /\ op.name = "commit_batch"
    /\ \E p \in Procs :
          /\ op.proc = p
          /\ run[p].pc = "prepare_measurements_data"
          /\ run[p].i = BatchSize
          /\ run[p].file_imported > 0
          /\ run[p].staging = <<>>

\* The process at p dies after the commit of a batch of its file and before
\* the load of the next batch begins
CrashesBetweenBatches(p) ==
    /\ run[p].pc = "prepare_measurements_data"
    /\ run[p].i >= BatchSize
    /\ run'[p].result.kind = "crashed"
    /\ run'[p].pc = "idle"

\* C25: a crash after the commit of batch N and before batch N+1 leaves every
\* Measurement row of the batches 1..N durable and the file's ImportFile
\* IN_PROGRESS with the imported and skipped counts accumulated over those
\* batches.
C25_PartialCounts ==
    [][\A p \in Procs : CrashesBetweenBatches(p) =>
          /\ \A key \in MergedKeys(p) : Cardinality(KeyRows(db', key)) = 1
          /\ ImportFileRow(db', run[p].import_file).status = IN_PROGRESS
          /\ ImportFileRow(db', run[p].import_file).records_imported = run[p].file_imported
          /\ ImportFileRow(db', run[p].import_file).records_skipped = run[p].file_skipped]_vars

\* The columns of an ImportFile that no operation writes after the INSERT
FixedColumns(f) == <<f.id, f.archive_name, f.filename, f.created_at>>

\* C26: no step of an import run or of the reset deletes a durable Station,
\* Indicator, ImportFile or Measurement row; the code of a Station and the
\* (name, unit) of an Indicator never change, a Measurement keeps its natural
\* key, and of an ImportFile nothing changes but status, counts, error
\* message and completion time.
C26_AppendOnly ==
    [][/\ db.stations \subseteq db'.stations
       /\ db.indicators \subseteq db'.indicators
       /\ \A s, t \in db'.stations : s.id = t.id => s = t
       /\ \A x, y \in db'.indicators : x.id = y.id => x = y
       /\ \A f \in db.import_files :
             \E g \in db'.import_files : FixedColumns(g) = FixedColumns(f)
       /\ \A f, g \in db'.import_files : f.id = g.id => f = g
       /\ \A k \in DOMAIN db.measurements :
             /\ k \in DOMAIN db'.measurements
             /\ StagedKey(db'.measurements[k]) = StagedKey(db.measurements[k])]_vars

\* After imports and a reset: a file is back to PENDING, another one is
\* COMPLETED, both stations exist and the third ImportFile owns a Measurement
C26_Witness ==
    /\ \E f \in db.import_files : f.status = PENDING
    /\ \E f \in db.import_files : f.status = COMPLETED /\ f.records_imported > 0
    /\ Cardinality(db.stations) = 2
    /\ \E k \in DOMAIN db.measurements : db.measurements[k].import_file_id = 3

\* A step of the run at p inside a batch that is not the batch's commit
InBatchAt(p) ==
    /\ run[p].pc \in {"prepare_measurements_data", "copy_measurements_to_db", "commit"}
    /\ run'[p] # run[p]
    /\ ~CopiesAt(p)

\* C28: the measurements change by the commit of a batch only and that commit
\* leaves a row for every key of the batch; a step inside a batch that is not
\* its commit (the failure of its load among them) and the handler of the
\* failure leave the measurements as the commit of the batch before left
\* them, the rows of the batches 1..N of the file among them.
C28_BatchAtomic ==
    [][\A p \in Procs :
          /\ InBatchAt(p) => db'.measurements = db.measurements
          /\ CopiesAt(p) => MergedOnce(p)
          /\ HandlesBatchFailureAt(p) =>
                /\ db'.measurements = db.measurements
                /\ \A key \in MergedKeys(p) :
                      \E r \in KeyRows(db', key) :
                          db'.measurements[r].import_file_id = run[p].import_file]_vars

\* The load of the second batch of a file has raised: the key the first batch
\* merged has its row, and the key only the second batch carries has none
C28_Witness ==
    \E p \in Procs :
        /\ run[p].pc = "except"
        /\ run[p].raised_in = "copy_measurements_to_db"
        /\ run[p].i = BatchSize
        /\ \A key \in MergedKeys(p) : Cardinality(KeyRows(db, key)) = 1
        /\ \E key \in BatchKeys(Batch(p)) \ MergedKeys(p) : KeyRows(db, key) = {}

\* The statuses of the ImportFile of the file the run at p stands at: none
\* when the file has no row
StatusAtFile(p) ==
    {f.status : f \in ImportFilesByKey(db, run[p].archive_name, File(p).filename)}

\* The run at p takes a step at the check of a file, other than dying there
StepsAtCheck(p) ==
    /\ run[p].pc = "is_file_completed"
    /\ run[p].idx <= Len(Files(p))
    /\ run'[p] # run[p]
    /\ run'[p].pc # "idle"

\* The step by which the run at p completes its file
CompletesAt(p) ==
    run[p].pc = "completed" /\ run'[p].pc = "is_file_completed"

\* C29: a run that comes to a file whose ImportFile is missing, PENDING,
\* FAILED or IN_PROGRESS begins it, with no reset in between: it marks the
\* file IN_PROGRESS, parses it and loads it from its first record, and the
\* completion counts every record of the file; the run passes over a file
\* only when its ImportFile is COMPLETED.
C29_ResumeWithoutReset ==
    [][\A p \in Procs :
          /\ StepsAtCheck(p) =>
                /\ StatusAtFile(p) \subseteq {PENDING, FAILED, IN_PROGRESS} =>
                      /\ run'[p].pc = "get_or_create_import_file"
                      /\ run'[p].idx = run[p].idx
                /\ run'[p].idx # run[p].idx => StatusAtFile(p) = {COMPLETED}
          /\ MarksAt(p) =>
                /\ ImportFileRow(db', run'[p].import_file).status = IN_PROGRESS
                /\ ImportFileRow(db', run'[p].import_file).filename = File(p).filename
                /\ ImportFileRow(db', run'[p].import_file).archive_name = run[p].archive_name
          /\ (run[p].pc = "parse_xlsx_file" /\ run'[p].pc \notin {"idle", "except"}) =>
                /\ run'[p].i = 0
                /\ run'[p].file_imported = 0 /\ run'[p].file_skipped = 0
          /\ CompletesAt(p) =>
                /\ run[p].i >= Len(parse_xlsx_file(File(p)))
                /\ ImportFileRow(db', run[p].import_file).records_imported
                      = Cardinality(ValueBearing(parse_xlsx_file(File(p))))
                /\ ImportFileRow(db', run[p].import_file).records_skipped
                      = Cardinality(Absent(parse_xlsx_file(File(p))))
                /\ \A key \in BatchKeys(parse_xlsx_file(File(p))) :
                      \E r \in KeyRows(db', key) :
                          db'.measurements[r].import_file_id = run[p].import_file]_vars

\* With no reset since, a run has passed over the completed file of its
\* archive and completed the next one, which it had found IN_PROGRESS
C29_Witness ==
    /\ op.name = "complete_file"
    /\ \E p \in Procs :
          /\ op.proc = p
          /\ run[p].files_skipped = 1
          /\ run[p].found.status = IN_PROGRESS
          /\ \A f \in db.import_files : f.status = COMPLETED
          /\ Cardinality(db.import_files) = 2

\* The parser was called on the grid
Called == parsed # NotParsed

\* ... and has returned its records
HasReturned == Called /\ parsed.error = NoText

\* The cell (5, 0) is there and is a text with the marker in it
HasMarker(df) ==
    /\ Len(df) >= 6
    /\ Len(df[6]) >= 1
    /\ df[6][1].t = "str"
    /\ \E k \in DOMAIN df[6][1].s : df[6][1].s[k] = "Data"

StartCol(df) == IF HasMarker(df) THEN 2 ELSE 1

\* The data columns and the rows that yield records, both counted from 0
DataColumns(df) == StartCol(df)..(NCols(df) - 1)

Parseable(cell) ==
    \/ cell.t \in {"Timestamp", "float"}
    \/ cell.t = "str" /\ Len(cell.s) >= 3 /\ cell.s[1] = "2024-01-01"

EmittingRows(df) ==
    {r \in detect_data_start_row(df)..(NRows(df) - 1) : Parseable(iloc(df, r, 0))}

\* The place of the record of the cell (r, c) among the records
Position(df, r, c) ==
    Cardinality({q \in EmittingRows(df) : q < r}) * Cardinality(DataColumns(df))
        + (c - StartCol(df)) + 1

\* C21: layout detection returns 2 when the cell (5, 0) is there and holds
\* the marker and 1 in every other case, and the station codes, the units and
\* the data cells are read from that column on.
C21_StartColumn ==
    Called =>
        /\ parsed.data_start_col = StartCol(grid)
        /\ \A r \in EmittingRows(grid) : \A c \in DataColumns(grid) :
              /\ Position(grid, r, c) \in DOMAIN parsed.records
              /\ parsed.records[Position(grid, r, c)].station_code = str(iloc(grid, 1, c))
              /\ parsed.records[Position(grid, r, c)].unit = str(iloc(grid, 4, c))
              /\ parsed.records[Position(grid, r, c)].value = ValueFloat(iloc(grid, r, c))

\* C22: a data cell with a decimal comma gives the number with the period in
\* its place, 12,5 giving 12.5; an empty cell and a text that is no number
\* after the replacement give a record without value.
C22_DecimalComma ==
    HasReturned =>
        \A r \in EmittingRows(grid) : \A c \in DataColumns(grid) :
            LET cell == iloc(grid, r, c)
                value == parsed.records[Position(grid, r, c)].value
            IN /\ cell = Text(<<"12", ",", "5">>) => value = 12500
               /\ cell = Text(<<"3", ".", "504">>) => value = 3504
               /\ cell = Text(<<"12">>) => value = 12000
               /\ cell = Number(2504) => value = 2504
               /\ cell \in {NaN, Text(<<"brak">>), Text(<<"1", ",", "234", ",", "5">>)} =>
                     value = NULL

\* The parser has returned records of a cell 12,5, of an empty cell and of a
\* cell with a word
C22_Witness ==
    /\ HasReturned
    /\ \E r \in EmittingRows(grid) : \E c \in DataColumns(grid) :
          /\ iloc(grid, r, c) = Text(<<"12", ",", "5">>)
          /\ parsed.records[Position(grid, r, c)].value = 12500
    /\ \E r \in EmittingRows(grid) : \E c \in DataColumns(grid) :
          /\ iloc(grid, r, c) = NaN
          /\ parsed.records[Position(grid, r, c)].value = NULL
    /\ \E r \in EmittingRows(grid) : \E c \in DataColumns(grid) :
          /\ iloc(grid, r, c) = Text(<<"brak">>)
          /\ parsed.records[Position(grid, r, c)].value = NULL

\* C27: the parser raises on no grid, whatever its rows, columns and cells.
C27_NeverRaises == Called => parsed.error = NoText

\* The time a cell of column 0 stands for
TimeOf(cell) ==
    IF cell.t = "Timestamp" THEN cell.v
    ELSE IF cell.t = "float" THEN Epoch
    ELSE CHOOSE h \in Hours : TimeText(h) = cell.s[3]

\* C30: the records the parser yields are one for each pair of a row at or
\* after the detected start row whose cell of column 0 is there and converts
\* and a column from the start column to the last one, whatever the data
\* cell holds, in the order of the rows and the columns, and no other; each
\* has the station code and the unit of its column, the indicator and the
\* averaging time of the first data column and the time of its row.
C30_OnePerPair ==
    Called =>
        /\ Len(parsed.records)
              = Cardinality(EmittingRows(grid)) * Cardinality(DataColumns(grid))
        /\ \A r \in EmittingRows(grid) : \A c \in DataColumns(grid) :
              LET record == parsed.records[Position(grid, r, c)] IN
              /\ record.station_code = str(iloc(grid, 1, c))
              /\ record.unit = str(iloc(grid, 4, c))
              /\ record.indicator_name = str(iloc(grid, 2, StartCol(grid)))
              /\ record.averaging_time = str(iloc(grid, 3, StartCol(grid)))
              /\ record.measured_at = TimeOf(iloc(grid, r, 0))

\* The parser has returned the records of a grid with the marker, with a row
\* below the start row that has no timestamp and a row that has one and an
\* empty data cell
C30_Witness ==
    /\ HasReturned
    /\ HasMarker(grid)
    /\ Cardinality(DataColumns(grid)) = 2
    /\ \E r \in detect_data_start_row(grid)..(NRows(grid) - 1) : r \notin EmittingRows(grid)
    /\ \E r \in EmittingRows(grid) : \E c \in DataColumns(grid) :
          /\ iloc(grid, r, c) = NaN
          /\ parsed.records[Position(grid, r, c)].value = NULL

\* The cell is a date, or a text with a date and a time of day
DateLike(cell) ==
    \/ cell.t = "Timestamp"
    \/ cell.t = "str" /\ Len(cell.s) >= 3 /\ cell.s[1] = "2024-01-01"

\* The rows the detection of the start row may return, counted from 0
StartRowCandidates(df) == {r \in 5..14 : r < NRows(df) /\ DateLike(iloc(df, r, 0))}

\* C31: the detected start row is the lowest row from 5 to 14 of the grid
\* whose cell of column 0 is a date or a text that reads as one, and row 6
\* where there is none; every record yielded has the time of a row at or
\* after the detected start row.
C31_StartRow ==
    HasReturned =>
        /\ IF StartRowCandidates(grid) = {}
           THEN parsed.data_start_row = 6
           ELSE /\ parsed.data_start_row \in StartRowCandidates(grid)
                /\ \A r \in StartRowCandidates(grid) : parsed.data_start_row <= r
        /\ \A k \in DOMAIN parsed.records :
              \E r \in parsed.data_start_row..(NRows(grid) - 1) :
                 /\ Parseable(iloc(grid, r, 0))
                 /\ TimeOf(iloc(grid, r, 0)) = parsed.records[k].measured_at

\* The parser has returned the records of a grid of 16 rows whose only date
\* is in row 15: the start row is the default and the records are of row 15
C31_Witness ==
    /\ HasReturned
    /\ NRows(grid) = 16
    /\ StartRowCandidates(grid) = {}
    /\ iloc(grid, 15, 0).t = "Timestamp"
    /\ parsed.data_start_row = 6
    /\ parsed.records # <<>>

\* The worksheet of the member an ImportFile stands for
SheetOf(f) ==
    LET names == Namelist(f.archive_name) IN
    names[CHOOSE k \in DOMAIN names : names[k].filename = f.filename].content

\* The rows of a worksheet the parser passes over: those without a timestamp
MalformedRows(content) == {i \in DOMAIN content.rows : content.rows[i].timestamp = NaT}

\* C32: the rows the parser passes over for want of a timestamp are counted
\* by the importer: the skipped count of a COMPLETED file is at least the
\* number of such rows of its worksheet.
C32_MalformedTallied ==
    \A f \in db.import_files :
        f.status = COMPLETED =>
            f.records_skipped >= Cardinality(MalformedRows(SheetOf(f)))

\* The callback the run at p invokes in the step, if it invokes the one named
Invokes(p, name) ==
    /\ run'[p].callbacks # run[p].callbacks
    /\ run'[p].callbacks # <<>>
    /\ run'[p].callbacks[Len(run'[p].callbacks)] = name

\* Of on_file_skip and on_file_start one is invoked for the file the run
\* comes to, in a step that writes nothing, and the file's row is marked after
\* on_file_start
SkipOrStartFirst(p) ==
    /\ StepsAtCheck(p) =>
          /\ run'[p].callbacks \in {<<"on_file_skip">>, <<"on_file_start">>}
          /\ db' = db
    /\ MarksAt(p) => run[p].callbacks = <<"on_file_start">>

\* on_file_complete is invoked with the file committed COMPLETED
CompleteAfterCommit(p) ==
    Invokes(p, "on_file_complete") =>
        ImportFileRow(db', run[p].import_file).status = COMPLETED

\* The file the handler commits FAILED is none on_file_complete was invoked for
NoCompleteForFailed(p) ==
    HandlesAt(p) =>
        /\ ImportFileRow(db', run[p].import_file).status = FAILED
        /\ \A k \in DOMAIN run[p].callbacks : run[p].callbacks[k] # "on_file_complete"

\* on_archive_complete, invoked when import_zip_file has returned, finds
\* every file of the archive COMPLETED
ArchiveCompleteWithoutFailure(p) ==
    ReturnsAt(p) =>
        \A k \in DOMAIN Files(p) :
            {f.status : f \in ImportFilesByKey(db', run[p].archive_name, Files(p)[k].filename)}
                = {COMPLETED}

\* C33: for every file a run comes to, one of on_file_skip and on_file_start
\* is invoked before any change to the file's ImportFile; on_file_complete is
\* invoked only with the file committed COMPLETED and for no file that ends
\* FAILED; on_archive_complete is invoked only when no file of the archive
\* failed.
C33_Callbacks ==
    [][\A p \in Procs :
          /\ SkipOrStartFirst(p)
          /\ CompleteAfterCommit(p)
          /\ NoCompleteForFailed(p)
          /\ ArchiveCompleteWithoutFailure(p)]_vars

\* C34: in every durable state an ImportFile that is COMPLETED has no error
\* message, also one that had failed before it was imported successfully.
C34_CompletedWithoutError ==
    \A f \in db.import_files : f.status = COMPLETED => f.error_message \in {NoText, ""}

\* The Measurement rows of store d that refer to the ImportFile id
RowsOfFile(d, id) == {k \in DOMAIN d.measurements : d.measurements[k].import_file_id = id}

\* C35: when the first file of a run begun on an empty store is completed,
\* the records_imported committed with COMPLETED is the number of Measurement
\* rows that refer to the file, also when value-bearing records of the file
\* share a natural key.
C35_CountIsRows ==
    [][\A p \in Procs :
          (CompletesAt(p) /\ run[p].snap = EmptyDb /\ run[p].idx = 1) =>
              /\ ImportFileRow(db', run[p].import_file).status = COMPLETED
              /\ ImportFileRow(db', run[p].import_file).records_imported
                    = Cardinality(RowsOfFile(db', run[p].import_file))]_vars

\* An ImportFile without its status and its error message
ApartFromStatus(f) == [f EXCEPT !.status = PENDING, !.error_message = NoText]

\* The statement as given: when the bulk load of a batch has failed, the
\* handler leaves the store as it was when the batch began, apart from the
\* status and the error message of the file's ImportFile, with no Station
\* and no Indicator the failed batch was the first to refer to.
C36_FailedBatchUndone ==
    [][\A p \in Procs :
          (HandlesAt(p) /\ run[p].raised_in = "copy_measurements_to_db") =>
              /\ db'.stations = run[p].before.stations
              /\ db'.indicators = run[p].before.indicators
              /\ db'.measurements = run[p].before.measurements
              /\ {ApartFromStatus(f) : f \in db'.import_files}
                    = {ApartFromStatus(f) : f \in run[p].before.import_files}]_vars

\* C36: when the bulk load of a batch has failed, the handler leaves the
\* measurements and the ImportFiles as they were when the batch began, apart
\* from the status and the error message of the file's ImportFile; the
\* Stations and the Indicators are those of before and one for every code
\* and every (name, unit) of a value-bearing record of the batch, committed
\* before the load.
C36_FailedBatchKeepsLookups ==
    [][\A p \in Procs :
          (HandlesAt(p) /\ run[p].raised_in = "copy_measurements_to_db") =>
              /\ db'.measurements = run[p].before.measurements
              /\ {ApartFromStatus(f) : f \in db'.import_files}
                    = {ApartFromStatus(f) : f \in run[p].before.import_files}
              /\ ImportFileRow(db', run[p].import_file).status = FAILED
              /\ run[p].before.stations \subseteq db'.stations
              /\ run[p].before.indicators \subseteq db'.indicators
              /\ {s.code : s \in db'.stations}
                    = {s.code : s \in run[p].before.stations}
                        \cup {Batch(p)[k].station_code : k \in ValueBearing(Batch(p))}
              /\ {<<x.name, x.unit>> : x \in db'.indicators}
                    = {<<x.name, x.unit>> : x \in run[p].before.indicators}
                        \cup {<<Batch(p)[k].indicator_name, Batch(p)[k].unit>> :
                                 k \in ValueBearing(Batch(p))}]_vars

\* The load of the first batch of a file has raised and the handler has
\* marked the file FAILED: the station and the indicator of the batch are
\* there, and no measurement
C36_Witness ==
    /\ op.name = "except"
    /\ \E f \in db.import_files : f.status = FAILED
    /\ db.stations # {}
    /\ db.indicators # {}
    /\ db.measurements = <<>>
    /\ \E p \in Procs : run[p].result.kind = "raised"

\* ---- C37
\* The cells of the station codes and of the units that are there in a file
\* of an archive
PresentCodes ==
    UNION {{m.content.station_codes[c] : c \in DOMAIN m.content.station_codes} :
              m \in UNION {{Namelist(a)[k] : k \in DOMAIN Namelist(a)} : a \in ArchiveNames}}
        \ {EmptyCell}

PresentUnits ==
    UNION {{m.content.units[c] : c \in DOMAIN m.content.units} :
              m \in UNION {{Namelist(a)[k] : k \in DOMAIN Namelist(a)} : a \in ArchiveNames}}
        \ {EmptyCell}

\* C37: every Station has a code that is a cell of row 1 of a file and every
\* Indicator a unit that is a cell of row 4 of a file: a data column whose
\* header cell is empty creates no Station and no Indicator.
C37_HeadersPresent ==
    /\ \A s \in db.stations : s.code \in PresentCodes
    /\ \A x \in db.indicators : x.unit \in PresentUnits

\* ------------------------------------------- the GIOS API library: steps
\* What the import does not touch the library by, and the other way round
ImportUnchanged ==
    UNCHANGED <<db, run, updated, failures, calls, mode, op, last_ok, base, overlap,
                resolved, sheet, grid, parsed>>

\* A call of the API object: the tests of the station object make none
ApiCallable == gios.kind \in ApiKinds /\ gios.station = "none"

AfterCall(call, args, rv) == [gios EXCEPT !.call = call, !.args = args, !.rv = rv]

\* fetch_stations_data: self._stations_data = <the JSON of findAll>
FetchStationsData(data) ==
    /\ ApiCallable
    /\ gios' = [AfterCall("fetch_stations_data", NoArgs, ApiReturned(<<>>))
                  EXCEPT !.stations_data = data]
    /\ ImportUnchanged

\* fetch_stations_data when _fetch_json raises APIError: nothing assigned
FetchStationsDataRaises ==
    /\ ApiCallable
    /\ gios' = AfterCall("fetch_stations_data", NoArgs, ApiRaised("APIError"))
    /\ ImportUnchanged

CreateStationsByIds(station_ids) ==
    /\ ApiCallable
    /\ gios' = AfterCall("create_stations_by_ids", [NoArgs EXCEPT !.station_ids = station_ids],
                      create_stations_by_ids(gios.kind, gios.stations_data, station_ids))
    /\ ImportUnchanged

CreateStationsByNames(names) ==
    /\ ApiCallable
    /\ gios' = AfterCall("create_stations_by_names", [NoArgs EXCEPT !.names = names],
                      create_stations_by_names(gios.kind, gios.stations_data, names))
    /\ ImportUnchanged

CreateStationsByLocation(point, max_stations, max_distance) ==
    /\ ApiCallable
    /\ gios' = AfterCall("create_stations_by_location",
                      [NoArgs EXCEPT !.point = point, !.max_stations = max_stations,
                                     !.max_distance = max_distance],
                      create_stations_by_location(gios.kind, gios.stations_data, point,
                                                  max_stations, max_distance))
    /\ ImportUnchanged

\* The station object the tests make themselves, of the class of the API
NewStation ==
    /\ gios.kind \in ApiKinds /\ gios.call = "none" /\ gios.station = "none"
    /\ LET made == IF gios.kind = "async"
                   THEN StationAsync(530, "Warszawa-Komunikacyjna", "Warszawa", 3)
                   ELSE StationSync(530, "Warszawa-Komunikacyjna", "Warszawa", 3)
       IN  gios' = [AfterCall("Station", NoArgs, made)
                      EXCEPT !.station = IF made.error = NoText THEN "made" ELSE made.error]
    /\ ImportUnchanged

\* A method of the station object may be called: there is one, and no
\* fetch_measurements of it is under way
StationCallable == gios.station = "made" /\ gios.fetch.pc # "await"

\* fetch_sensors_data: self._sensors_data = <the JSON of sensors/{stationId}>
FetchSensorsData(sensors) ==
    /\ StationCallable
    /\ gios' = [AfterCall("fetch_sensors_data", NoArgs, ApiReturned(<<>>))
                  EXCEPT !.sensors_data = sensors, !.fetch = NoFetch]
    /\ ImportUnchanged

FetchSensorsDataRaises ==
    /\ StationCallable
    /\ gios' = [AfterCall("fetch_sensors_data", NoArgs, ApiRaised("APIError"))
                  EXCEPT !.fetch = NoFetch]
    /\ ImportUnchanged

\* fetch_measurements up to its first request: measurements = {}, and the
\* data of the first sensor asked for; without sensors the call ends here
FetchMeasurements ==
    /\ StationCallable
    /\ gios' = IF gios.sensors_data = <<>>
               THEN [AfterCall("fetch_measurements", NoArgs, ApiReturned(<<>>))
                       EXCEPT !.before = gios.measurements, !.measurements = {},
                              !.fetch = [NoFetch EXCEPT !.pc = "done"]]
               ELSE [AfterCall("fetch_measurements", NoArgs, ApiReturned(<<>>))
                       EXCEPT !.before = gios.measurements,
                              !.fetch = [NoFetch EXCEPT !.pc = "await", !.idx = 1,
                                                        !.requests = <<gios.sensors_data[1]>>]]
    /\ ImportUnchanged

\* The answer to the request under way: measurements[data['key']] =
\* data['values'], then the next request, or self._measurements = measurements
AnswerData(values) ==
    /\ gios.station = "made" /\ gios.fetch.pc = "await"
    /\ LET f == gios.fetch
           measurements == SetItem(f.measurements, ParamCode(gios.sensors_data[f.idx]), values)
       IN  gios' = IF f.idx = Len(gios.sensors_data)
                   THEN [gios EXCEPT !.measurements = measurements,
                                     !.fetch = [f EXCEPT !.pc = "done", !.answered = @ + 1,
                                                         !.measurements = measurements]]
                   ELSE [gios EXCEPT !.fetch = [f EXCEPT !.idx = @ + 1, !.answered = @ + 1,
                                                         !.measurements = measurements,
                                                         !.requests = Append(@, gios.sensors_data[f.idx + 1])]]
    /\ ImportUnchanged

\* The request under way fails: APIError leaves fetch_measurements
AnswerAPIError ==
    /\ gios.station = "made" /\ gios.fetch.pc = "await"
    /\ gios' = [gios EXCEPT !.rv = ApiRaised("APIError"), !.fetch.pc = "raised"]
    /\ ImportUnchanged

\* An API object of either class, nothing fetched
InitAPI ==
    /\ InitMode("seq") /\ sheet = NoSheet /\ grid = NoFrame /\ parsed = NotParsed
    /\ \E kind \in ApiKinds : gios = [NoAPI EXCEPT !.kind = kind]

NextAPI ==
    \/ \E data \in FetchedLists : FetchStationsData(data)
    \/ FetchStationsDataRaises
    \/ \E station_ids \in IdCollections : CreateStationsByIds(station_ids)
    \/ \E names \in NameCollections : CreateStationsByNames(names)
    \/ \E point \in Points : \E max_stations \in 0..MaxStationsAsked :
         \E max_distance \in DistancesAsked :
           CreateStationsByLocation(point, max_stations, max_distance)
    \/ NewStation
    \/ \E sensors \in SensorLists : FetchSensorsData(sensors)
    \/ FetchSensorsDataRaises
    \/ FetchMeasurements
    \/ \E values \in ValueLists : AnswerData(values)
    \/ AnswerAPIError

\* The library on its own
SpecAPI == InitAPI /\ [][NextAPI]_vars

\* ---- C38
\* The places of the fetched list whose station is one of the chosen, and
\* the i-th of them
PlacesWithId(station_ids) ==
    {k \in DOMAIN gios.stations_data : gios.stations_data[k].id \in station_ids}
PlacesWithName(names) ==
    {k \in DOMAIN gios.stations_data : gios.stations_data[k].stationName \in names}
PlaceOf(places, i) == CHOOSE k \in places : Cardinality({j \in places : j <= k}) = i

\* The call returned one object for each of the places, in their order
ObjectsOfPlaces(places) ==
    /\ gios.rv.error = NoText
    /\ Len(gios.rv.value) = Cardinality(places)
    /\ \A i \in 1..Cardinality(places) :
         /\ gios.rv.value[i].station_id = gios.stations_data[PlaceOf(places, i)].id
         /\ gios.rv.value[i].name = gios.stations_data[PlaceOf(places, i)].stationName

\* C38: create_stations_by_ids(ids), and likewise create_stations_by_names(names),
\* returns one station object for each fetched station whose id (name) is in
\* the given collection and for no other station, in the order of the
\* fetched list.
C38_ObjectsOfChosen ==
    /\ gios.call = "create_stations_by_ids" => ObjectsOfPlaces(PlacesWithId(gios.args.station_ids))
    /\ gios.call = "create_stations_by_names" => ObjectsOfPlaces(PlacesWithName(gios.args.names))

\* The same of the API of sync.py alone, over stations that have a city
C38_SyncWithCities ==
    (gios.kind = "sync" /\ \A k \in DOMAIN gios.stations_data : gios.stations_data[k].city # NoText)
        => C38_ObjectsOfChosen

\* ---- C39
\* The fetched stations the call did not return
LeftOut ==
    {k \in DOMAIN gios.stations_data :
        \A i \in DOMAIN gios.rv.value : gios.rv.value[i].station_id # gios.stations_data[k].id}

\* C39: create_stations_by_location(lat, lon, max_stations, max_distance)
\* returns the fetched stations ordered by non-decreasing distance from the
\* given point, at most max_stations of them, all with distance at most
\* max_distance, and no station left out is nearer than a station returned.
C39_NearestFirst ==
    gios.call = "create_stations_by_location" =>
        /\ gios.rv.error = NoText
        /\ \A i \in DOMAIN gios.rv.value :
             /\ \E k \in DOMAIN gios.stations_data :
                  /\ gios.stations_data[k].id = gios.rv.value[i].station_id
                  /\ gios.rv.value[i].distance
                       = approximate_distance(gios.args.point, gios.stations_data[k])
             /\ gios.rv.value[i].distance <= gios.args.max_distance
             /\ \A j \in DOMAIN gios.rv.value :
                  i < j => gios.rv.value[i].distance <= gios.rv.value[j].distance
             /\ \A k \in LeftOut :
                  approximate_distance(gios.args.point, gios.stations_data[k])
                    >= gios.rv.value[i].distance
        /\ Len(gios.rv.value) <= gios.args.max_stations

\* The same of the API of sync.py alone, over stations that have a city
C39_SyncWithCities ==
    (gios.kind = "sync" /\ \A k \in DOMAIN gios.stations_data : gios.stations_data[k].city # NoText)
        => C39_NearestFirst

\* A call of sync.py that returned two stations and left a farther one out
C39_SyncReturnsNearest ==
    /\ gios.kind = "sync" /\ gios.call = "create_stations_by_location"
    /\ gios.rv.error = NoText /\ Len(gios.rv.value) = 2 /\ LeftOut # {}

\* ---- C40
\* C40: async_fetch_measurements requests the data of the station's sensors
\* one at a time in the order of the fetched sensor list (the next request is
\* sent only after the previous response arrived), completes only after every
\* sensor has been answered, and replaces the station's stored measurements
\* only then: if any request fails with APIError the previously stored
\* measurements are unchanged. The station object the method is called on
\* is the one StationAsync(api=api, station_id=.., ..) makes.
C40_FetchMeasurements ==
    /\ gios.kind = "async" /\ gios.call = "Station" => gios.rv.error = NoText
    /\ gios.fetch.pc # "idle" =>
         /\ gios.fetch.requests = SubSeq(gios.sensors_data, 1, Len(gios.fetch.requests))
         /\ Len(gios.fetch.requests) <= gios.fetch.answered + 1
    /\ gios.fetch.pc = "done" =>
         /\ gios.fetch.answered = Len(gios.sensors_data)
         /\ {kv[1] : kv \in gios.measurements}
              = {ParamCode(gios.sensors_data[k]) : k \in DOMAIN gios.sensors_data}
         /\ gios.measurements = gios.fetch.measurements
    /\ gios.fetch.pc \in {"await", "raised"} => gios.measurements = gios.before

\* The same of a station object of sync.py, whose fetch_measurements is the
\* same loop
C40_SyncFetchMeasurements == gios.kind = "sync" => C40_FetchMeasurements

\* A station of sync.py with stored measurements has answered both sensors
\* of a second fetch_measurements
C40_SyncFetched ==
    /\ gios.kind = "sync" /\ gios.fetch.pc = "done" /\ gios.fetch.answered = 2
    /\ gios.before # {} /\ gios.before # gios.measurements

\* A station of sync.py keeps its measurements when a request fails
C40_SyncFailed ==
    /\ gios.kind = "sync" /\ gios.fetch.pc = "raised" /\ gios.fetch.answered = 1
    /\ gios.measurements # {}
====
